---- MODULE Spec2Model ----
(***************************************************************************)
(* Model of the thermal-camera LUT viewer: the LUT registry, the custom   *)
(* LUT builder and the LUT applicator (boson_lut.py, boson_lut-multicam.py)*)
(* and the threaded capture/display loop with its recording, screenshot,  *)
(* camera-switch and exit handlers (boson_lut.py).                        *)
(***************************************************************************)
EXTENDS Integers, Sequences, FiniteSets, TLC

(***************************************************************************)
(* Strings.  A Python str is modelled as the sequence of its characters,   *)
(* so that str.upper() is a computation on the characters.                 *)
(***************************************************************************)
K_WHITEHOT == <<"W", "H", "I", "T", "E", "H", "O", "T">>
K_BLACKHOT == <<"B", "L", "A", "C", "K", "H", "O", "T">>
K_REDHOT == <<"R", "E", "D", "H", "O", "T">>
K_RAINBOW == <<"R", "A", "I", "N", "B", "O", "W">>
K_OCEAN == <<"O", "C", "E", "A", "N">>
K_LAVA == <<"L", "A", "V", "A">>
K_ARCTIC == <<"A", "R", "C", "T", "I", "C">>
K_GLOBOW == <<"G", "L", "O", "B", "O", "W">>
K_GRADEDFIRE == <<"G", "R", "A", "D", "E", "D", "F", "I", "R", "E">>
K_INSTALERT == <<"I", "N", "S", "T", "A", "L", "E", "R", "T">>
K_SPRING == <<"S", "P", "R", "I", "N", "G">>
K_SUMMER == <<"S", "U", "M", "M", "E", "R">>
K_COOL == <<"C", "O", "O", "L">>
K_HSV == <<"H", "S", "V">>
K_PINK == <<"P", "I", "N", "K">>
K_HOT == <<"H", "O", "T">>
K_MAGMA == <<"M", "A", "G", "M", "A">>
K_INFERNO == <<"I", "N", "F", "E", "R", "N", "O">>
K_PLASMA == <<"P", "L", "A", "S", "M", "A">>
K_VIRIDIS == <<"V", "I", "R", "I", "D", "I", "S">>
K_CIVIDIS == <<"C", "I", "V", "I", "D", "I", "S">>
K_ISOTHERM_RED == <<"I", "S", "O", "T", "H", "E", "R", "M", "_", "R", "E", "D">>
K_ISOTHERM_GREEN == <<"I", "S", "O", "T", "H", "E", "R", "M", "_", "G", "R", "E", "E", "N">>
K_ISOTHERM_BLUE == <<"I", "S", "O", "T", "H", "E", "R", "M", "_", "B", "L", "U", "E">>
S_red == <<"r", "e", "d">>
S_green == <<"g", "r", "e", "e", "n">>
S_blue == <<"b", "l", "u", "e">>
S_purple == <<"p", "u", "r", "p", "l", "e">>
S_Red == <<"R", "e", "d">>
S_NOT_A_LUT == <<"N", "O", "T", "_", "A", "_", "L", "U", "T">>
S_whitehot == <<"w", "h", "i", "t", "e", "h", "o", "t">>
S_Isotherm_Red == <<"I", "s", "o", "t", "h", "e", "r", "m", "_", "R", "e", "d">>
S_not_a_lut == <<"n", "o", "t", "_", "a", "_", "l", "u", "t">>

\* str.upper() on one character: the ASCII lower-case letters map to upper case.
LowerToUpper ==
    ("a" :> "A") @@ ("b" :> "B") @@ ("c" :> "C") @@ ("d" :> "D") @@ ("e" :> "E") @@ ("f" :> "F") @@
    ("g" :> "G") @@ ("h" :> "H") @@ ("i" :> "I") @@ ("j" :> "J") @@ ("k" :> "K") @@ ("l" :> "L") @@
    ("m" :> "M") @@ ("n" :> "N") @@ ("o" :> "O") @@ ("p" :> "P") @@ ("q" :> "Q") @@ ("r" :> "R") @@
    ("s" :> "S") @@ ("t" :> "T") @@ ("u" :> "U") @@ ("v" :> "V") @@ ("w" :> "W") @@ ("x" :> "X") @@
    ("y" :> "Y") @@ ("z" :> "Z")

upper(s) == [i \in 1..Len(s) |-> IF s[i] \in DOMAIN LowerToUpper THEN LowerToUpper[s[i]] ELSE s[i]]

(***************************************************************************)
(* The LUT registry.  A value is either a built-in colormap identifier or  *)
(* a generator of a custom table (the lambdas of the ISOTHERM entries).    *)
(***************************************************************************)
BuiltIn(id) == [kind |-> "builtin", id |-> id, color |-> <<>>, step |-> 0]
Custom(color, step) == [kind |-> "custom", id |-> "", color |-> color, step |-> step]

\* The gradient step of the three isotherm presets.
PresetStep == 32

LUTS ==
    (K_WHITEHOT :> BuiltIn("COLORMAP_BONE")) @@
    (K_BLACKHOT :> BuiltIn("COLORMAP_JET")) @@
    (K_REDHOT :> BuiltIn("COLORMAP_HOT")) @@
    (K_RAINBOW :> BuiltIn("COLORMAP_RAINBOW")) @@
    (K_OCEAN :> BuiltIn("COLORMAP_OCEAN")) @@
    (K_LAVA :> BuiltIn("COLORMAP_PINK")) @@
    (K_ARCTIC :> BuiltIn("COLORMAP_WINTER")) @@
    (K_GLOBOW :> BuiltIn("COLORMAP_PARULA")) @@
    (K_GRADEDFIRE :> BuiltIn("COLORMAP_AUTUMN")) @@
    (K_INSTALERT :> BuiltIn("COLORMAP_SUMMER")) @@
    (K_SPRING :> BuiltIn("COLORMAP_SPRING")) @@
    (K_SUMMER :> BuiltIn("COLORMAP_SUMMER")) @@
    (K_COOL :> BuiltIn("COLORMAP_COOL")) @@
    (K_HSV :> BuiltIn("COLORMAP_HSV")) @@
    (K_PINK :> BuiltIn("COLORMAP_PINK")) @@
    (K_HOT :> BuiltIn("COLORMAP_HOT")) @@
    (K_MAGMA :> BuiltIn("COLORMAP_MAGMA")) @@
    (K_INFERNO :> BuiltIn("COLORMAP_INFERNO")) @@
    (K_PLASMA :> BuiltIn("COLORMAP_PLASMA")) @@
    (K_VIRIDIS :> BuiltIn("COLORMAP_VIRIDIS")) @@
    (K_CIVIDIS :> BuiltIn("COLORMAP_CIVIDIS")) @@
    (K_ISOTHERM_RED :> Custom(S_red, PresetStep)) @@
    (K_ISOTHERM_GREEN :> Custom(S_green, PresetStep)) @@
    (K_ISOTHERM_BLUE :> Custom(S_blue, PresetStep))

LutNames == DOMAIN LUTS

(***************************************************************************)
(* IEEE-754 binary64 arithmetic, as far as np.linspace needs it.  A        *)
(* non-negative double is  (h*2^40 + m*2^20 + l) * 2^(e-52)  with the      *)
(* 53-bit significand held in three limbs (h < 2^13, m, l < 2^20); zero    *)
(* has all limbs 0.  Every operation rounds to nearest, ties to even.      *)
(***************************************************************************)
Limb == 2^20

Pow2(n) == 2^n

FZero == [h |-> 0, m |-> 0, l |-> 0, e |-> 0]

FIsZero(x) == x.h = 0 /\ x.m = 0 /\ x.l = 0

\* The exponent of a/b: the e with 2^e <= a/b < 2^(e+1)  (a, b > 0).
FExponent(a, b) ==
    CHOOSE e \in -12..12 :
        IF e >= 0
        THEN b * Pow2(e) <= a /\ a < b * Pow2(e + 1)
        ELSE b <= a * Pow2(-e) /\ a * Pow2(-e - 1) < b

\* Carries between the limbs, and the renormalisation of a significand that
\* rounding carried up to 2^53.
FNorm(h, m, l, e) ==
    LET m1 == m + (l \div Limb)
        h1 == h + (m1 \div Limb)
    IN  IF h1 >= 8192
        THEN [h |-> 4096, m |-> 0, l |-> 0, e |-> e + 1]
        ELSE [h |-> h1, m |-> m1 % Limb, l |-> l % Limb, e |-> e]

\* Round to nearest even: whether the kept part (whose lowest bit is
\* lowbit) is incremented, given the dropped part rem of width 2^r.
FRoundUp(rem, r, lowbit) ==
    /\ r >= 1
    /\ \/ 2 * rem > Pow2(r)
       \/ (2 * rem = Pow2(r) /\ lowbit % 2 = 1)

\* float(a) / float(b) for integers 0 <= a, 0 < b: long division limb by limb.
FDiv(a, b) ==
    IF a = 0 THEN FZero
    ELSE LET e   == FExponent(a, b)
             top == a * Pow2(12 - e)
             q2  == top \div b
             r2  == top % b
             q1  == (r2 * Limb) \div b
             r1  == (r2 * Limb) % b
             q0  == (r1 * Limb) \div b
             r0  == (r1 * Limb) % b
             up  == IF 2 * r0 > b \/ (2 * r0 = b /\ q0 % 2 = 1) THEN 1 ELSE 0
         IN  FNorm(q2, q1, q0 + up, e)

FFromInt(n) == FDiv(n, 1)

\* x * float(n) for an integer n >= 0: the exact product, rounded to 53 bits.
FMulInt(x, n) ==
    IF n = 0 \/ FIsZero(x) THEN FZero
    ELSE LET p0  == x.l * n
             p1  == x.m * n + (p0 \div Limb)
             lo  == p0 % Limb
             mi  == p1 % Limb
             top == x.h * n + (p1 \div Limb)
             r   == CHOOSE k \in 0..9 : Pow2(12 + k) <= top /\ top < Pow2(13 + k)
             rem == lo % Pow2(r)
             l2  == (lo \div Pow2(r)) + (mi % Pow2(r)) * Pow2(20 - r)
             m2  == (mi \div Pow2(r)) + (top % Pow2(r)) * Pow2(20 - r)
             h2  == top \div Pow2(r)
             up  == IF FRoundUp(rem, r, l2) THEN 1 ELSE 0
         IN  FNorm(h2, m2, l2 + up, x.e + r)

\* int(x): truncation toward zero of a double below 2^13.
FTrunc(x) ==
    IF FIsZero(x) \/ x.e < 0 THEN 0 ELSE x.h \div Pow2(12 - x.e)

\* x + float(n) for an integer n >= 0: the exact sum, rounded to 53 bits.
FAddInt(x, n) ==
    IF n = 0 THEN x
    ELSE IF FIsZero(x) THEN FFromInt(n)
    ELSE LET es  == FExponent(FTrunc(x) + n, 1)
             d   == es - x.e
             rem == x.l % Pow2(d)
             l2  == (x.l \div Pow2(d)) + (x.m % Pow2(d)) * Pow2(20 - d)
             m2  == (x.m \div Pow2(d)) + (x.h % Pow2(d)) * Pow2(20 - d)
             h2  == (x.h \div Pow2(d)) + n * Pow2(12 - es)
             up  == IF FRoundUp(rem, d, l2) THEN 1 ELSE 0
         IN  FNorm(h2, m2, l2 + up, es)

(***************************************************************************)
(* numpy                                                                   *)
(***************************************************************************)
\* The width of np.uint8.
Uint8Size == 256

\* The signed conversion, astype(np.int8): the same 8 bits read as -128..127.
astype_int8(x) ==
    IF FTrunc(x) % Uint8Size >= 128 THEN (FTrunc(x) % Uint8Size) - Uint8Size
    ELSE FTrunc(x) % Uint8Size

\* ndarray.astype(np.uint8) of one non-negative double: truncate, keep 8 bits.
astype_uint8(x) == FTrunc(x) % Uint8Size

\* np.linspace(start, stop, num) for rows of 3 integers with start <= stop,
\* as doubles: y = arange(num) * (delta / div) + start, or, when some channel's
\* step is 0, y = (arange(num) / div) * delta + start; the last row is set to
\* stop when num > 1; with num = 1 the only row is start.
linspace(start, stop, num) ==
    LET div   == num - 1
        delta == [c \in 1..3 |-> stop[c] - start[c]]
        any_step_zero == \E c \in 1..3 : delta[c] = 0
        y(i, c) ==
            IF div > 0
            THEN IF any_step_zero
                 THEN FAddInt(FMulInt(FDiv(i, div), delta[c]), start[c])
                 ELSE FAddInt(FMulInt(FDiv(delta[c], div), i), start[c])
            ELSE FFromInt(start[c])
    IN  [k \in 1..num |->
            IF num > 1 /\ k = num
            THEN [c \in 1..3 |-> FFromInt(stop[c])]
            ELSE [c \in 1..3 |-> y(k - 1, c)]]

\* linspace(...).astype(np.uint8), and linspace(..., dtype=np.uint8).
linspace_uint8(start, stop, num) ==
    LET y == linspace(start, stop, num)
    IN  [k \in 1..num |-> [c \in 1..3 |-> astype_uint8(y[k][c])]]

(***************************************************************************)
(* create_custom_lut                                                       *)
(***************************************************************************)
\* The number of entries of a LUT.
LutSize == 256

Raise(error) == [err |-> error, table |-> <<>>, resampled |-> FALSE]

\* The endpoints with the channels in RGB order, which OpenCV does not use.
gradient_colors_rgb(color) ==
    IF color = S_red THEN << <<64, 0, 0>>, <<255, 0, 0>> >>
    ELSE IF color = S_green THEN << <<0, 64, 0>>, <<0, 255, 0>> >>
    ELSE IF color = S_blue THEN << <<0, 0, 64>>, <<0, 0, 255>> >>
    ELSE <<>>

\* The (dark, light) endpoints of the colour ramp, in OpenCV's BGR order, or
\* <<>> for an unsupported colour.
gradient_colors(color) ==
    IF color = S_red THEN << <<0, 0, 64>>, <<0, 0, 255>> >>
    ELSE IF color = S_green THEN << <<0, 64, 0>>, <<0, 255, 0>> >>
    ELSE IF color = S_blue THEN << <<64, 0, 0>>, <<255, 0, 0>> >>
    ELSE <<>>

\* Ensure the LUT has 256 entries: the concatenation is resampled between its
\* first and last row when it has not, then reshaped to (256, 1, 3).
ensure_256(custom_colors) ==
    IF Len(custom_colors) # LutSize
    THEN [err |-> "none",
          table |-> linspace_uint8(custom_colors[1], custom_colors[Len(custom_colors)], LutSize),
          resampled |-> TRUE]
    ELSE [err |-> "none", table |-> custom_colors, resampled |-> FALSE]

\* The table built from the two ramps; np.linspace raises ValueError for a
\* negative number of samples.
custom_lut(endpoints, color_gradient_step) ==
    LET BLACK_TO_WHITE_STEP == LutSize - color_gradient_step
        black_to_white == linspace_uint8(<<0, 0, 0>>, <<255, 255, 255>>, BLACK_TO_WHITE_STEP)
        color_gradient == linspace_uint8(endpoints[1], endpoints[2], color_gradient_step)
    IN  IF BLACK_TO_WHITE_STEP < 0
        THEN Raise("ValueError")
        ELSE ensure_256(black_to_white \o color_gradient)

\* The step check without its boundary: 0 is let through.
create_custom_lut_lax(color, color_gradient_step) ==
    IF color_gradient_step < 0
    THEN Raise("ValueError")
    ELSE IF gradient_colors(color) = <<>>
    THEN Raise("ValueError")
    ELSE custom_lut(gradient_colors(color), color_gradient_step)

\* create_custom_lut(color, color_gradient_step): the step is checked first,
\* then the colour.
create_custom_lut(color, color_gradient_step) ==
    IF color_gradient_step <= 0
    THEN Raise("ValueError")
    ELSE IF gradient_colors(color) = <<>>
    THEN Raise("ValueError")
    ELSE custom_lut(gradient_colors(color), color_gradient_step)

(***************************************************************************)
(* Frames and OpenCV.  A frame is a sequence of rows, a row a sequence of  *)
(* pixels, a pixel its three 8-bit channels <<b, g, r>>.                   *)
(***************************************************************************)
\* cv2.flip(frame, 1): mirror every row; cv2.flip(frame, 0): reverse the rows.
cv2_flip(frame, flipCode) ==
    IF flipCode = 1
    THEN [y \in 1..Len(frame) |-> [x \in 1..Len(frame[y]) |-> frame[y][Len(frame[y]) + 1 - x]]]
    ELSE [y \in 1..Len(frame) |-> frame[Len(frame) + 1 - y]]

\* A lookup that reads the table from its other end.
cv2_LUT_inverted(frame, lut) ==
    [y \in 1..Len(frame) |-> [x \in 1..Len(frame[y]) |->
        [c \in 1..3 |-> lut[Len(lut) - frame[y][x][c]][c]]]]

\* cv2.LUT(src, lut) with a 3-channel table: channel c of every pixel is
\* looked up in column c of the table row its own value indexes.
cv2_LUT(frame, lut) ==
    [y \in 1..Len(frame) |-> [x \in 1..Len(frame[y]) |->
        [c \in 1..3 |-> lut[frame[y][x][c] + 1][c]]]]

\* cv2.cvtColor(BGR2GRAY) of one pixel, in OpenCV's 14-bit fixed point.
bgr2gray(p) == (p[1] * 1868 + p[2] * 9617 + p[3] * 4899 + 8192) \div 16384

\* cv2.applyColorMap(src, colormap): the grey value of every pixel is mapped
\* through the built-in table named by the identifier.  The tables are the
\* library's; an entry is kept as the pair (identifier, index).
cv2_applyColorMap(frame, colormap) ==
    [y \in 1..Len(frame) |-> [x \in 1..Len(frame[y]) |->
        [cmap |-> colormap, at |-> bgr2gray(frame[y][x])]]]

(***************************************************************************)
(* apply_lut                                                               *)
(***************************************************************************)
RaiseApply(error) == [err |-> error, frame |-> <<>>]

\* The table applied by cv2.LUT; the error of the generator is the call's.
apply_custom(frame, colormap) ==
    IF colormap.err # "none"
    THEN RaiseApply(colormap.err)
    ELSE [err |-> "none", frame |-> cv2_LUT(frame, colormap.table)]

\* The registered value resolved and applied: a generator is called and its
\* table looked up, an identifier goes to cv2.applyColorMap.
apply_colormap(frame, entry) ==
    IF entry.kind = "custom"
    THEN apply_custom(frame, create_custom_lut(entry.color, entry.step))
    ELSE [err |-> "none", frame |-> cv2_applyColorMap(frame, entry.id)]

\* boson_lut.py: the name is looked up as given.
apply_lut(frame, lut_name) ==
    IF lut_name \notin DOMAIN LUTS
    THEN RaiseApply("ValueError")
    ELSE apply_colormap(frame, LUTS[lut_name])

\* The lookup with the name as given in both tests.
apply_lut_as_given(frame, lut_name) ==
    IF lut_name \notin DOMAIN LUTS
    THEN RaiseApply("ValueError")
    ELSE apply_colormap(frame, LUTS[lut_name])

\* boson_lut-multicam.py: the name is upper-cased before the lookup.
apply_lut_multicam(frame, lut_name) ==
    IF upper(lut_name) \notin DOMAIN LUTS
    THEN RaiseApply("ValueError")
    ELSE apply_colormap(frame, LUTS[upper(lut_name)])

(***************************************************************************)
(* get_video_devices_for_flir.  An enumerated video4linux device is its    *)
(* device node and what find_parent gives for it: no USB parent, or the    *)
(* parent's properties, a missing property reading None.                   *)
(***************************************************************************)
None == "None"

FLIR_VENDOR_ID == "09cb"
LEPTON_PRODUCT_ID == "0100"

Device(node, parent) == [device_node |-> node, parent |-> parent]
UsbParent(vendor_id, product_id) ==
    [is_none |-> FALSE, ID_VENDOR_ID |-> vendor_id, ID_MODEL_ID |-> product_id]
NoParent == [is_none |-> TRUE, ID_VENDOR_ID |-> None, ID_MODEL_ID |-> None]

\* The walk with every device of vendor 1e4e taken for a Lepton.
RECURSIVE flir_devices_any_1e4e(_)
flir_devices_any_1e4e(devices) ==
    IF devices = <<>>
    THEN <<>>
    ELSE IF Head(devices).parent.is_none
         THEN flir_devices_any_1e4e(Tail(devices))
         ELSE IF Head(devices).parent.ID_VENDOR_ID \in {FLIR_VENDOR_ID, "1e4e"}
              THEN <<Head(devices).device_node>> \o flir_devices_any_1e4e(Tail(devices))
              ELSE flir_devices_any_1e4e(Tail(devices))

\* for device in context.list_devices(subsystem='video4linux'): a device
\* without USB parent is skipped; one of the FLIR vendor, or of vendor 1e4e
\* with the Lepton product id, has its node appended.
RECURSIVE flir_devices(_)
flir_devices(devices) ==
    IF devices = <<>>
    THEN <<>>
    ELSE IF Head(devices).parent.is_none
         THEN flir_devices(Tail(devices))
         ELSE IF Head(devices).parent.ID_VENDOR_ID = FLIR_VENDOR_ID
              THEN <<Head(devices).device_node>> \o flir_devices(Tail(devices))
              ELSE IF /\ Head(devices).parent.ID_VENDOR_ID = "1e4e"
                      /\ Head(devices).parent.ID_MODEL_ID = LEPTON_PRODUCT_ID
                   THEN <<Head(devices).device_node>> \o flir_devices(Tail(devices))
                   ELSE flir_devices(Tail(devices))

\* The function returns the list, empty or not, and raises nothing.
get_video_devices_for_flir(devices) == [err |-> "none", devices |-> flir_devices(devices)]

(***************************************************************************)
(* State.  The first six variables hold one call of a pure function (the   *)
(* specification SpecLut); the rest is the state of the running program of *)
(* boson_lut.py: the Tk main thread, the capture threads and what they     *)
(* share.                                                                  *)
(***************************************************************************)
VARIABLES
    call_fn, call_color, call_step, call_name, call_frame, call_devices, call_ret,
    pc,                    \* task -> the statement it is at
    cap_lock, out_lock, recording_lock,   \* each the set of its holder (empty: free)
    exit_event,            \* threading.Event
    screenshot_requested,  \* the module-level flag
    recording_var,         \* recording_var[0]
    out_var,               \* out_var[0]: a writer, or NoWriter
    writers,               \* the cv2.VideoWriter objects constructed so far
    caps,                  \* the cv2.VideoCapture objects constructed so far
    cap,                   \* main's variable cap: the current handle
    current_camera_index,
    selected_camera,       \* switch_camera's local
    cap_of,                \* capture thread -> the handle it was started with
    lut_var, flip_horizontal_var, flip_vertical_var,
    root,                  \* whether the Tk root window exists
    frame,                 \* capture thread -> the frame it read
    colored_frame,         \* capture thread -> its transformed frame, with the LUT and the
                           \* count of flip presses it was made under
    last_frame,            \* capture thread -> its display cache
    video_label,           \* the frame on display
    screenshots,           \* the frames saved by cv2.imwrite
    nframes,               \* frames read so far; frame n carries id n and its handle
    xform_active,          \* capture thread -> whether a session was active when it transformed its frame
    rec_active,            \* capture thread -> whether a session was active at its record step
    start_failed,          \* whether the last start of a recording session failed
    shot_requests,         \* how often the screenshot button was pressed so far
    toggles,               \* how often each flip button was pressed so far
    camera_lock,           \* boson_lut-multicam.py: the set of its holder
    recording, out,        \* main's locals of boson_lut-multicam.py
    flip_horizontal, flip_vertical,
    retries,               \* task -> the local retries of its open loop
    opens,                 \* task -> the open attempts of its open loop so far
    after_queue,           \* window -> its update_frame callbacks waiting in the event loop
    cw_args                \* window thread -> the arguments of its create_camera_window

callVars == <<call_fn, call_color, call_step, call_name, call_frame, call_devices, call_ret>>
lockVars == <<cap_lock, out_lock, recording_lock>>
recVars  == <<recording_var, out_var, writers, start_failed>>
camVars  == <<caps, cap, current_camera_index, selected_camera, cap_of>>
uiVars   == <<lut_var, flip_horizontal_var, flip_vertical_var, root, toggles>>
frameVars == <<frame, colored_frame, last_frame, xform_active, rec_active>>
outVars  == <<video_label, screenshots, shot_requests>>
progVars == <<pc, lockVars, exit_event, screenshot_requested, recVars, camVars, uiVars,
              frameVars, outVars, nframes>>
mcVars   == <<camera_lock, recording, out, flip_horizontal, flip_vertical, retries, opens,
              after_queue, cw_args>>
vars == <<callVars, progVars, mcVars>>

(***************************************************************************)
(* Bounds of the model.                                                    *)
(***************************************************************************)
MaxStep == 257        \* gradient steps up to MaxStep are tried
NegSteps == 2         \* and down to -NegSteps
MaxSwitches == 1      \* camera switches
MaxFrames == 3        \* frames read by the capture threads
MaxWriters == 2       \* recording sessions started
MaxToggles == 3       \* presses of the two flip buttons together
MaxShots == 2         \* presses of the screenshot button
MaxDevices == 3       \* enumerated video devices
MaxLockFrames == 2    \* frames read in the runs that are checked for lock progress

(***************************************************************************)
(* Tasks: the Tk main thread and the capture threads.  A capture thread is *)
(* started at startup and by every successful camera switch.               *)
(***************************************************************************)
MainThread == 0
Threads == 1..(MaxSwitches + 1)
Tasks == {MainThread} \cup Threads

NoWriter == 0
NoFrame == <<>>

Grey(v) == <<v, v, v>>

\* What the camera delivers: frames of grey pixels.
CameraImages ==
    { << <<Grey(0), Grey(100)>>, <<Grey(224), Grey(255)>> >> }

\* The devices get_video_devices_for_flir found, in enumeration order.
available_cameras == <<"/dev/video0", "/dev/video2">>

\* The LUTs the user picks in this model, among the keys of the menu.
MenuLuts == {K_REDHOT, K_INFERNO}

(***************************************************************************)
(* The pure functions under call.                                          *)
(***************************************************************************)
TestColors == {S_red, S_green, S_blue, S_purple, S_Red, <<>>}
TestSteps == (0 - NegSteps)..MaxStep
TestNames == {K_WHITEHOT, K_REDHOT, K_ISOTHERM_RED, K_ISOTHERM_GREEN, K_ISOTHERM_BLUE,
              S_NOT_A_LUT, S_whitehot, S_Isotherm_Red, S_not_a_lut, <<>>}
TestPixels == {Grey(0), Grey(255), Grey(100), <<10, 20, 230>>}
TestFrames == {<< <<p, q>> >> : p \in TestPixels, q \in TestPixels}

\* The USB parents tried: none, a Boson, a Lepton adapter, the adapter's
\* vendor with another product, another vendor, a parent without ids.
TestParents ==
    {NoParent, UsbParent(FLIR_VENDOR_ID, "4007"), UsbParent("1e4e", LEPTON_PRODUCT_ID),
     UsbParent("1e4e", "0102"), UsbParent("1234", LEPTON_PRODUCT_ID), UsbParent(None, None)}

DeviceNodes == <<"/dev/video0", "/dev/video1", "/dev/video2">>

\* The enumerations tried: up to MaxDevices devices, the i-th at node i.
TestEnumerations ==
    UNION {[1..n -> TestParents] : n \in 0..MaxDevices}

Enumerated(parents) == [i \in 1..Len(parents) |-> Device(DeviceNodes[i], parents[i])]

Pending == [err |-> "pending"]

NoCall ==
    /\ call_fn = "none"
    /\ call_color = <<>>
    /\ call_step = 0
    /\ call_name = <<>>
    /\ call_frame = <<>>
    /\ call_devices = <<>>
    /\ call_ret = Pending

NoToggles == [horizontal |-> 0, vertical |-> 0]

\* The variables of boson_lut-multicam.py while that program is not running.
McIdle ==
    /\ camera_lock = {}
    /\ recording = FALSE
    /\ out = NoWriter
    /\ flip_horizontal = FALSE
    /\ flip_vertical = FALSE
    /\ retries = [k \in Tasks |-> 0]
    /\ opens = [k \in Tasks |-> <<>>]
    /\ after_queue = [k \in Tasks |-> 0]
    /\ cw_args = [t \in Threads |-> <<>>]

\* The program right after main has built the window and started the first
\* capture thread (update_video_frame(), then root.mainloop()); an unsupported
\* lut_name has been replaced by REDHOT.
ProgInit(lut_name) ==
    /\ pc = [k \in Tasks |-> IF k = MainThread THEN "mainloop"
                             ELSE IF k = 1 THEN "top" ELSE "idle"]
    /\ cap_lock = {} /\ out_lock = {} /\ recording_lock = {}
    /\ exit_event = FALSE
    /\ screenshot_requested = FALSE
    /\ recording_var = FALSE
    /\ out_var = NoWriter
    /\ writers = <<>>
    /\ start_failed = FALSE
    /\ caps = << [device |-> available_cameras[1], opened |-> TRUE, released |-> FALSE,
                  owner |-> MainThread] >>
    /\ cap = 1
    /\ current_camera_index = available_cameras[1]
    /\ selected_camera = available_cameras[1]
    /\ cap_of = [t \in Threads |-> 1]
    /\ lut_var = (IF lut_name \in DOMAIN LUTS THEN lut_name ELSE K_REDHOT)
    /\ flip_horizontal_var = FALSE
    /\ flip_vertical_var = FALSE
    /\ root = TRUE
    /\ toggles = NoToggles
    /\ frame = [t \in Threads |-> NoFrame]
    /\ colored_frame = [t \in Threads |-> NoFrame]
    /\ last_frame = [t \in Threads |-> NoFrame]
    /\ video_label = 0
    /\ screenshots = <<>>
    /\ shot_requests = 0
    /\ nframes = 0
    /\ xform_active = [t \in Threads |-> FALSE]
    /\ rec_active = [t \in Threads |-> FALSE]

InitLut ==
    /\ call_ret = Pending
    /\ \/ /\ call_fn = "create_custom_lut"
          /\ call_color \in TestColors
          /\ call_step \in TestSteps
          /\ call_name = <<>>
          /\ call_frame = <<>>
          /\ call_devices = <<>>
       \/ /\ call_fn \in {"apply_lut", "apply_lut_multicam"}
          /\ call_color = <<>>
          /\ call_step = 0
          /\ call_name \in TestNames
          /\ call_frame \in TestFrames
          /\ call_devices = <<>>
       \/ /\ call_fn = "get_video_devices_for_flir"
          /\ call_color = <<>>
          /\ call_step = 0
          /\ call_name = <<>>
          /\ call_frame = <<>>
          /\ call_devices \in TestEnumerations
    /\ ProgInit(K_REDHOT)
    /\ McIdle

CallCreateCustomLut ==
    /\ call_fn = "create_custom_lut"
    /\ call_ret = Pending
    /\ call_ret' = create_custom_lut(call_color, call_step)
    /\ UNCHANGED <<call_fn, call_color, call_step, call_name, call_frame, call_devices,
                   progVars, mcVars>>

CallApplyLut ==
    /\ call_fn = "apply_lut"
    /\ call_ret = Pending
    /\ call_ret' = apply_lut(call_frame, call_name)
    /\ UNCHANGED <<call_fn, call_color, call_step, call_name, call_frame, call_devices,
                   progVars, mcVars>>

CallApplyLutMulticam ==
    /\ call_fn = "apply_lut_multicam"
    /\ call_ret = Pending
    /\ call_ret' = apply_lut_multicam(call_frame, call_name)
    /\ UNCHANGED <<call_fn, call_color, call_step, call_name, call_frame, call_devices,
                   progVars, mcVars>>

CallGetVideoDevices ==
    /\ call_fn = "get_video_devices_for_flir"
    /\ call_ret = Pending
    /\ call_ret' = get_video_devices_for_flir(Enumerated(call_devices))
    /\ UNCHANGED <<call_fn, call_color, call_step, call_name, call_frame, call_devices,
                   progVars, mcVars>>

NextLut == CallCreateCustomLut \/ CallApplyLut \/ CallApplyLutMulticam \/ CallGetVideoDevices

SpecLut == InitLut /\ [][NextLut]_vars

(***************************************************************************)
(* Helpers                                                                 *)
(***************************************************************************)
Goto(k, label) == pc' = [pc EXCEPT ![k] = label]

\* cap.read() can deliver a frame only from a handle that was opened and has
\* not been released.
Readable(c) == caps[c].opened /\ ~caps[c].released

\* cv2.VideoWriter(...): a new writer, open and empty.  late holds the frames
\* written after release(), which the writer drops.
NewWriter == [released |-> FALSE, frames |-> <<>>, late |-> <<>>]

\* out.write(frame)
VideoWriter_write(w, f) ==
    IF w.released
    THEN [w EXCEPT !.late = Append(@, f)]
    ELSE [w EXCEPT !.frames = Append(@, f)]

\* out.release()
VideoWriter_release(w) == [w EXCEPT !.released = TRUE]

\* cap.release()
VideoCapture_release(c) == [c EXCEPT !.released = TRUE]

\* The flips of the capture loop, horizontal first, then the LUT.
flip_and_apply(img, flip_h, flip_v, current_lut) ==
    apply_lut(IF flip_v
              THEN cv2_flip(IF flip_h THEN cv2_flip(img, 1) ELSE img, 0)
              ELSE IF flip_h THEN cv2_flip(img, 1) ELSE img,
              current_lut)

(***************************************************************************)
(* capture_and_process_video: one capture thread t.                        *)
(***************************************************************************)
\* while not exit_event.is_set():
LoopTop(t) ==
    /\ pc[t] = "top"
    /\ IF exit_event
       THEN Goto(t, "done")
       ELSE nframes < MaxFrames /\ Goto(t, "cap_acq")
    /\ UNCHANGED <<callVars, mcVars, lockVars, exit_event, screenshot_requested, recVars, camVars,
                   uiVars, frameVars, outVars, nframes>>

\* with cap_lock:
CapAcquire(t) ==
    /\ pc[t] = "cap_acq"
    /\ cap_lock = {}
    /\ cap_lock' = {t}
    /\ Goto(t, "read")
    /\ UNCHANGED <<callVars, mcVars, out_lock, recording_lock, exit_event, screenshot_requested,
                   recVars, camVars, uiVars, frameVars, outVars, nframes>>

\* ret, frame = cap.read(); a failed read prints and breaks out of the loop.
CapRead(t) ==
    /\ pc[t] = "read"
    /\ cap_lock' = {}
    /\ \/ /\ Readable(cap_of[t])
          /\ \E img \in CameraImages :
                frame' = [frame EXCEPT ![t] = [id |-> nframes + 1, cap |-> cap_of[t], img |-> img]]
          /\ nframes' = nframes + 1
          /\ Goto(t, "transform")
       \/ /\ Goto(t, "done")
          /\ UNCHANGED <<frame, nframes>>
    /\ UNCHANGED <<callVars, mcVars, out_lock, recording_lock, exit_event, screenshot_requested,
                   recVars, camVars, uiVars, colored_frame, last_frame, xform_active, rec_active, outVars>>

\* current_lut = lut_var.get(); the flips; colored_frame = apply_lut(...);
\* a ValueError skips to the next iteration.
Transform(t) ==
    /\ pc[t] = "transform"
    /\ \E r \in {flip_and_apply(frame[t].img, flip_horizontal_var, flip_vertical_var, lut_var)} :
          IF r.err = "ValueError"
          THEN /\ Goto(t, "top")
               /\ UNCHANGED <<colored_frame, xform_active>>
          ELSE /\ colored_frame' = [colored_frame EXCEPT ![t] =
                                      [id |-> frame[t].id, cap |-> frame[t].cap, img |-> r.frame,
                                       lut |-> lut_var, toggles |-> toggles]]
               /\ xform_active' = [xform_active EXCEPT ![t] = recording_var /\ out_var # NoWriter]
               /\ Goto(t, "rec_acq")
    /\ UNCHANGED <<callVars, mcVars, lockVars, exit_event, screenshot_requested, recVars, camVars,
                   uiVars, frame, last_frame, rec_active, outVars, nframes>>

\* with recording_lock:
RecAcquire(t) ==
    /\ pc[t] = "rec_acq"
    /\ recording_lock = {}
    /\ recording_lock' = {t}
    /\ Goto(t, "rec_check")
    /\ UNCHANGED <<callVars, mcVars, cap_lock, out_lock, exit_event, screenshot_requested, recVars,
                   camVars, uiVars, frameVars, outVars, nframes>>

\* The test of the flag, keeping recording_lock when nothing is recorded.
RecCheckKeepsLock(t) ==
    /\ pc[t] = "rec_check"
    /\ rec_active' = [rec_active EXCEPT ![t] = recording_var /\ out_var # NoWriter]
    /\ Goto(t, IF recording_var /\ out_var # NoWriter THEN "out_acq" ELSE "display")
    /\ UNCHANGED <<callVars, mcVars, lockVars, exit_event, screenshot_requested, recVars,
                   camVars, uiVars, frame, colored_frame, last_frame, xform_active, outVars,
                   nframes>>

\* if recording_var[0] and out_var[0]:
RecCheck(t) ==
    /\ pc[t] = "rec_check"
    /\ rec_active' = [rec_active EXCEPT ![t] = recording_var /\ out_var # NoWriter]
    /\ IF recording_var /\ out_var # NoWriter
       THEN /\ Goto(t, "out_acq")
            /\ UNCHANGED recording_lock
       ELSE /\ recording_lock' = {}
            /\ Goto(t, "display")
    /\ UNCHANGED <<callVars, mcVars, cap_lock, out_lock, exit_event, screenshot_requested, recVars,
                   camVars, uiVars, frame, colored_frame, last_frame, xform_active, outVars,
                   nframes>>

\* The append reached without taking out_lock.
OutAcquireSkipped(t) ==
    /\ pc[t] = "out_acq"
    /\ Goto(t, "write")
    /\ UNCHANGED <<callVars, mcVars, lockVars, exit_event, screenshot_requested,
                   recVars, camVars, uiVars, frameVars, outVars, nframes>>

\* with out_lock:
OutAcquire(t) ==
    /\ pc[t] = "out_acq"
    /\ out_lock = {}
    /\ out_lock' = {t}
    /\ Goto(t, "write")
    /\ UNCHANGED <<callVars, mcVars, cap_lock, recording_lock, exit_event, screenshot_requested,
                   recVars, camVars, uiVars, frameVars, outVars, nframes>>

\* out_var[0].write(colored_frame); on an exception the handler calls
\* toggle_recording, with both locks still held.
Write(t) ==
    /\ pc[t] = "write"
    /\ \/ /\ writers' = [writers EXCEPT ![out_var] = VideoWriter_write(@, [id |-> colored_frame[t].id, cap |-> colored_frame[t].cap])]
          /\ out_lock' = {}
          /\ recording_lock' = {}
          /\ Goto(t, "display")
       \/ /\ Goto(t, "tr_acq")
          /\ UNCHANGED <<writers, out_lock, recording_lock>>
    /\ UNCHANGED <<callVars, mcVars, cap_lock, exit_event, screenshot_requested, recording_var, out_var,
                   start_failed,
                   camVars, uiVars, frameVars, outVars, nframes>>

\* if last_frame is None or not np.array_equal(last_frame, colored_frame):
\* the label is updated; with the window destroyed that raises, is printed,
\* and last_frame stays.
Display(t) ==
    /\ pc[t] = "display"
    /\ IF (last_frame[t] = NoFrame \/ last_frame[t] # colored_frame[t].img) /\ root
       THEN /\ video_label' = colored_frame[t].id
            /\ last_frame' = [last_frame EXCEPT ![t] = colored_frame[t].img]
       ELSE UNCHANGED <<video_label, last_frame>>
    /\ Goto(t, "shot")
    /\ UNCHANGED <<callVars, mcVars, lockVars, exit_event, screenshot_requested, recVars, camVars,
                   uiVars, frame, colored_frame, xform_active, rec_active, screenshots,
                   shot_requests, nframes>>

\* if screenshot_requested:   (otherwise the pacing sleep, and the next iteration)
ShotTest(t) ==
    /\ pc[t] = "shot"
    /\ IF screenshot_requested THEN Goto(t, "shot_save") ELSE Goto(t, "top")
    /\ UNCHANGED <<callVars, mcVars, lockVars, exit_event, screenshot_requested, recVars, camVars,
                   uiVars, frameVars, outVars, nframes>>

\* screenshot_requested = False; cv2.imwrite(...), whose failure is printed.
ShotSave(t) ==
    /\ pc[t] = "shot_save"
    /\ screenshot_requested' = FALSE
    /\ \/ screenshots' = Append(screenshots, colored_frame[t].id)
       \/ UNCHANGED screenshots
    /\ Goto(t, "top")
    /\ UNCHANGED <<callVars, mcVars, lockVars, exit_event, recVars, camVars, uiVars, frameVars,
                   video_label, shot_requests, nframes>>

(***************************************************************************)
(* toggle_recording, called by task k: the main thread from the record     *)
(* button, a capture thread from its write-failure handler.                *)
(***************************************************************************)
\* The caller goes on: the main thread back to the event loop, a capture
\* thread out of its two with blocks to the display step.
Return(k) == IF k = MainThread THEN "mainloop" ELSE "display"

\* toggle_recording entered without taking recording_lock.
TrAcquireUnlocked(k) ==
    /\ pc[k] = "tr_acq"
    /\ Goto(k, "tr_body")
    /\ UNCHANGED <<callVars, mcVars, lockVars, exit_event, screenshot_requested, recVars,
                   camVars, uiVars, frameVars, outVars, nframes>>

\* with recording_lock:   (threading.Lock is not reentrant)
TrAcquire(k) ==
    /\ pc[k] = "tr_acq"
    /\ recording_lock = {}
    /\ recording_lock' = {k}
    /\ Goto(k, "tr_body")
    /\ UNCHANGED <<callVars, mcVars, cap_lock, out_lock, exit_event, screenshot_requested, recVars,
                   camVars, uiVars, frameVars, outVars, nframes>>

\* toggle_recording setting the flag before it constructs the writer.
TrBodyFlagFirst(k) ==
    /\ pc[k] = "tr_body"
    /\ ~recording_var
    /\ recording_var' = TRUE
    /\ start_failed' = TRUE
    /\ recording_lock' = {}
    /\ Goto(k, Return(k))
    /\ UNCHANGED <<callVars, mcVars, cap_lock, out_lock, exit_event, screenshot_requested,
                   writers, out_var, camVars, uiVars, frameVars, outVars, nframes>>

\* if not recording_var[0]: construct the writer (an exception is printed and
\* leaves the state); else: recording_var[0] = False, then the writer.
TrBody(k) ==
    /\ pc[k] = "tr_body"
    /\ IF ~recording_var
       THEN /\ \/ /\ Len(writers) < MaxWriters
                  /\ writers' = Append(writers, NewWriter)
                  /\ out_var' = Len(writers) + 1
                  /\ recording_var' = TRUE
                  /\ start_failed' = FALSE
               \/ /\ start_failed' = TRUE
                  /\ UNCHANGED <<writers, out_var, recording_var>>
            /\ recording_lock' = {}
            /\ Goto(k, Return(k))
       ELSE /\ recording_var' = FALSE
            /\ IF out_var # NoWriter
               THEN /\ Goto(k, "tr_out_acq")
                    /\ UNCHANGED recording_lock
               ELSE /\ recording_lock' = {}
                    /\ Goto(k, Return(k))
            /\ UNCHANGED <<writers, out_var, start_failed>>
    /\ UNCHANGED <<callVars, mcVars, cap_lock, out_lock, exit_event, screenshot_requested,
                   camVars, uiVars, frameVars, outVars, nframes>>

\* with out_lock:
TrOutAcquire(k) ==
    /\ pc[k] = "tr_out_acq"
    /\ out_lock = {}
    /\ out_lock' = {k}
    /\ Goto(k, "tr_out_body")
    /\ UNCHANGED <<callVars, mcVars, cap_lock, recording_lock, exit_event, screenshot_requested,
                   recVars, camVars, uiVars, frameVars, outVars, nframes>>

\* A stop that releases the writer and keeps the handle.
TrOutBodyKeepsHandle(k) ==
    /\ pc[k] = "tr_out_body"
    /\ writers' = [writers EXCEPT ![out_var] = VideoWriter_release(@)]
    /\ out_lock' = {}
    /\ recording_lock' = {}
    /\ Goto(k, Return(k))
    /\ UNCHANGED <<callVars, mcVars, cap_lock, exit_event, screenshot_requested, recording_var,
                   out_var, start_failed,
                   camVars, uiVars, frameVars, outVars, nframes>>

\* out_var[0].release(); out_var[0] = None
TrOutBody(k) ==
    /\ pc[k] = "tr_out_body"
    /\ writers' = [writers EXCEPT ![out_var] = VideoWriter_release(@)]
    /\ out_var' = NoWriter
    /\ out_lock' = {}
    /\ recording_lock' = {}
    /\ Goto(k, Return(k))
    /\ UNCHANGED <<callVars, mcVars, cap_lock, exit_event, screenshot_requested, recording_var,
                   start_failed,
                   camVars, uiVars, frameVars, outVars, nframes>>

(***************************************************************************)
(* The Tk main thread: the event loop runs one callback at a time.         *)
(***************************************************************************)
\* Record button: toggle_recording(recording_var, out_var, ...)
RecordButton ==
    /\ pc[MainThread] = "mainloop"
    /\ recording_var \/ Len(writers) < MaxWriters
    /\ Goto(MainThread, "tr_acq")
    /\ UNCHANGED <<callVars, mcVars, lockVars, exit_event, screenshot_requested, recVars, camVars,
                   uiVars, frameVars, outVars, nframes>>

\* Screenshot button: take_screenshot()
take_screenshot ==
    /\ pc[MainThread] = "mainloop"
    /\ shot_requests < MaxShots
    /\ screenshot_requested' = TRUE
    /\ shot_requests' = shot_requests + 1
    /\ UNCHANGED <<callVars, mcVars, pc, lockVars, exit_event, recVars, camVars, uiVars, frameVars,
                   video_label, screenshots, nframes>>

\* Flip Horizontal button
FlipHorizontalButton ==
    /\ pc[MainThread] = "mainloop"
    /\ toggles.horizontal + toggles.vertical < MaxToggles
    /\ flip_horizontal_var' = ~flip_horizontal_var
    /\ toggles' = [toggles EXCEPT !.horizontal = @ + 1]
    /\ UNCHANGED <<callVars, mcVars, pc, lockVars, exit_event, screenshot_requested, recVars, camVars,
                   lut_var, flip_vertical_var, root, frameVars, outVars, nframes>>

\* Flip Vertical button
FlipVerticalButton ==
    /\ pc[MainThread] = "mainloop"
    /\ toggles.horizontal + toggles.vertical < MaxToggles
    /\ flip_vertical_var' = ~flip_vertical_var
    /\ toggles' = [toggles EXCEPT !.vertical = @ + 1]
    /\ UNCHANGED <<callVars, mcVars, pc, lockVars, exit_event, screenshot_requested, recVars, camVars,
                   lut_var, flip_horizontal_var, root, frameVars, outVars, nframes>>

\* The LUT menu sets lut_var to one of the registry's keys.
LutMenu ==
    /\ pc[MainThread] = "mainloop"
    /\ \E name \in MenuLuts :
          /\ name # lut_var
          /\ lut_var' = name
    /\ UNCHANGED <<callVars, mcVars, pc, lockVars, exit_event, screenshot_requested, recVars, camVars,
                   flip_horizontal_var, flip_vertical_var, root, toggles, frameVars, outVars,
                   nframes>>

\* The camera menu writes camera_var, whose trace calls switch_camera:
\* if selected_camera != current_camera_index:
CameraMenu ==
    /\ pc[MainThread] = "mainloop"
    /\ Len(caps) <= MaxSwitches
    /\ \E i \in 1..Len(available_cameras) :
          /\ available_cameras[i] # current_camera_index
          /\ selected_camera' = available_cameras[i]
    /\ Goto(MainThread, "sw_acq")
    /\ UNCHANGED <<callVars, mcVars, lockVars, exit_event, screenshot_requested, recVars, caps, cap,
                   current_camera_index, cap_of, uiVars, frameVars, outVars, nframes>>

\* switch_camera: with cap_lock:
SwAcquire ==
    /\ pc[MainThread] = "sw_acq"
    /\ cap_lock = {}
    /\ cap_lock' = {MainThread}
    /\ Goto(MainThread, "sw_release")
    /\ UNCHANGED <<callVars, mcVars, out_lock, recording_lock, exit_event, screenshot_requested,
                   recVars, camVars, uiVars, frameVars, outVars, nframes>>

\* A switch that leaves the old handle as it is.
SwReleaseKeepsOld ==
    /\ pc[MainThread] = "sw_release"
    /\ current_camera_index' = selected_camera
    /\ Goto(MainThread, "sw_open")
    /\ UNCHANGED <<callVars, mcVars, lockVars, exit_event, screenshot_requested, recVars, caps,
                   cap, selected_camera, cap_of, uiVars, frameVars, outVars, nframes>>

\* cap.release(); current_camera_index = selected_camera
SwRelease ==
    /\ pc[MainThread] = "sw_release"
    /\ caps' = [caps EXCEPT ![cap] = VideoCapture_release(@)]
    /\ current_camera_index' = selected_camera
    /\ Goto(MainThread, "sw_open")
    /\ UNCHANGED <<callVars, mcVars, lockVars, exit_event, screenshot_requested, recVars, cap,
                   selected_camera, cap_of, uiVars, frameVars, outVars, nframes>>

\* cap = cv2.VideoCapture(current_camera_index, ...); if it did not open,
\* print and return; else set the frame size; the with block ends.
SwOpen ==
    /\ pc[MainThread] = "sw_open"
    /\ \E ok \in BOOLEAN :
          /\ caps' = Append(caps, [device |-> current_camera_index, opened |-> ok,
                                   released |-> FALSE, owner |-> MainThread])
          /\ Goto(MainThread, IF ok THEN "sw_spawn" ELSE "mainloop")
    /\ cap' = Len(caps) + 1
    /\ cap_lock' = {}
    /\ UNCHANGED <<callVars, mcVars, out_lock, recording_lock, exit_event, screenshot_requested,
                   recVars, current_camera_index, selected_camera, cap_of, uiVars, frameVars,
                   outVars, nframes>>

\* update_video_frame(): a new daemon thread running capture_and_process_video
\* on the current handle.
update_video_frame ==
    /\ pc[MainThread] = "sw_spawn"
    /\ \E t \in Threads :
          /\ pc[t] = "idle"
          /\ \A u \in Threads : u < t => pc[u] # "idle"
          /\ pc' = [pc EXCEPT ![t] = "top", ![MainThread] = "mainloop"]
          /\ cap_of' = [cap_of EXCEPT ![t] = cap]
    /\ UNCHANGED <<callVars, mcVars, lockVars, exit_event, screenshot_requested, recVars, caps, cap,
                   current_camera_index, selected_camera, uiVars, frameVars, outVars, nframes>>

\* Exit button: exit_program(cap, out_var): with cap_lock:
ExitButton ==
    /\ pc[MainThread] = "mainloop"
    /\ Goto(MainThread, "ex_cap_acq")
    /\ UNCHANGED <<callVars, mcVars, lockVars, exit_event, screenshot_requested, recVars, camVars,
                   uiVars, frameVars, outVars, nframes>>

\* with cap_lock:   (in exit_program, and in main after the event loop)
ExitCapAcquire ==
    /\ pc[MainThread] \in {"ex_cap_acq", "fin_cap_acq"}
    /\ cap_lock = {}
    /\ cap_lock' = {MainThread}
    /\ Goto(MainThread, IF pc[MainThread] = "ex_cap_acq" THEN "ex_cap_rel" ELSE "fin_cap_rel")
    /\ UNCHANGED <<callVars, mcVars, out_lock, recording_lock, exit_event, screenshot_requested,
                   recVars, camVars, uiVars, frameVars, outVars, nframes>>

\* cap.release()
ExitCapRelease ==
    /\ pc[MainThread] \in {"ex_cap_rel", "fin_cap_rel"}
    /\ caps' = [caps EXCEPT ![cap] = VideoCapture_release(@)]
    /\ cap_lock' = {}
    /\ Goto(MainThread, IF pc[MainThread] = "ex_cap_rel" THEN "ex_out_acq" ELSE "fin_out_acq")
    /\ UNCHANGED <<callVars, mcVars, out_lock, recording_lock, exit_event, screenshot_requested,
                   recVars, cap, current_camera_index, selected_camera, cap_of, uiVars,
                   frameVars, outVars, nframes>>

\* with out_lock:
ExitOutAcquire ==
    /\ pc[MainThread] \in {"ex_out_acq", "fin_out_acq"}
    /\ out_lock = {}
    /\ out_lock' = {MainThread}
    /\ Goto(MainThread, IF pc[MainThread] = "ex_out_acq" THEN "ex_out_rel" ELSE "fin_out_rel")
    /\ UNCHANGED <<callVars, mcVars, cap_lock, recording_lock, exit_event, screenshot_requested,
                   recVars, camVars, uiVars, frameVars, outVars, nframes>>

\* exit_program: if out_var[0]: out_var[0].release()
ExitOutRelease ==
    /\ pc[MainThread] = "ex_out_rel"
    /\ writers' = IF out_var # NoWriter
                  THEN [writers EXCEPT ![out_var] = VideoWriter_release(@)]
                  ELSE writers
    /\ out_lock' = {}
    /\ Goto(MainThread, "ex_set")
    /\ UNCHANGED <<callVars, mcVars, cap_lock, recording_lock, exit_event, screenshot_requested,
                   recording_var, out_var, start_failed, camVars, uiVars, frameVars, outVars,
                   nframes>>

\* exit_event.set(); root.destroy(): the event loop returns to main.
ExitSet ==
    /\ pc[MainThread] = "ex_set"
    /\ exit_event' = TRUE
    /\ root' = FALSE
    /\ Goto(MainThread, "fin_cap_acq")
    /\ UNCHANGED <<callVars, mcVars, lockVars, screenshot_requested, recVars, camVars, lut_var,
                   flip_horizontal_var, flip_vertical_var, toggles, frameVars, outVars,
                   nframes>>

\* main, after the event loop: if out_var[0]: out_var[0].release(); then main
\* returns and the interpreter exits, which ends the daemon threads.
MainReturn ==
    /\ pc[MainThread] = "fin_out_rel"
    /\ writers' = IF out_var # NoWriter
                  THEN [writers EXCEPT ![out_var] = VideoWriter_release(@)]
                  ELSE writers
    /\ out_lock' = {}
    /\ pc' = [k \in Tasks |->
                IF k = MainThread THEN "exited"
                ELSE IF pc[k] \in {"idle", "done"} THEN pc[k] ELSE "killed"]
    /\ UNCHANGED <<callVars, mcVars, cap_lock, recording_lock, exit_event, screenshot_requested,
                   recording_var, out_var, start_failed, camVars, uiVars, frameVars, outVars,
                   nframes>>

(***************************************************************************)
(* The program of boson_lut.py under recording, camera switches and exit:  *)
(* the capture threads, the record button, the camera menu and the exit    *)
(* button.  The initial LUT is the command line's, REDHOT when that name   *)
(* is not registered.                                                      *)
(***************************************************************************)
CliLuts == {K_REDHOT, S_NOT_A_LUT}

Init ==
    /\ NoCall
    /\ McIdle
    /\ \E lut_name \in CliLuts : ProgInit(lut_name)

CaptureStep(t) ==
    \/ LoopTop(t) \/ CapAcquire(t) \/ CapRead(t) \/ Transform(t)
    \/ RecAcquire(t) \/ RecCheck(t) \/ OutAcquire(t) \/ Write(t)
    \/ Display(t) \/ ShotTest(t)

ToggleStep(k) == TrAcquire(k) \/ TrBody(k) \/ TrOutAcquire(k) \/ TrOutBody(k)

SwitchStep == CameraMenu \/ SwAcquire \/ SwRelease \/ SwOpen \/ update_video_frame

ExitStep ==
    \/ ExitButton \/ ExitCapAcquire \/ ExitCapRelease \/ ExitOutAcquire \/ ExitOutRelease
    \/ ExitSet \/ MainReturn

Next ==
    \/ \E t \in Threads : CaptureStep(t)
    \/ \E k \in Tasks : ToggleStep(k)
    \/ RecordButton
    \/ SwitchStep
    \/ ExitStep

Spec == Init /\ [][Next]_vars

(***************************************************************************)
(* The program of boson_lut.py under screenshots and camera switches: the  *)
(* capture threads outside a recording session, the screenshot button and  *)
(* the camera menu.  A capture thread that can take a step does so in the  *)
(* end, and so does the main thread inside switch_camera; a press of a     *)
(* button is the user's choice.                                            *)
(***************************************************************************)
ShotStep(t) ==
    \/ LoopTop(t) \/ CapAcquire(t) \/ CapRead(t) \/ Transform(t)
    \/ RecAcquire(t) \/ RecCheck(t) \/ Display(t) \/ ShotTest(t) \/ ShotSave(t)

SwitchBody == SwAcquire \/ SwRelease \/ SwOpen \/ update_video_frame

NextShot ==
    \/ \E t \in Threads : ShotStep(t)
    \/ take_screenshot
    \/ CameraMenu
    \/ SwitchBody

SpecShot ==
    /\ Init
    /\ [][NextShot]_vars
    /\ \A t \in Threads : WF_vars(ShotStep(t))
    /\ WF_vars(SwitchBody)

(***************************************************************************)
(* The program of boson_lut.py under the flip buttons and the LUT menu:    *)
(* the capture thread outside a recording session.                         *)
(***************************************************************************)
UiStep(t) ==
    \/ LoopTop(t) \/ CapAcquire(t) \/ CapRead(t) \/ Transform(t)
    \/ RecAcquire(t) \/ RecCheck(t) \/ Display(t) \/ ShotTest(t)

NextUi ==
    \/ \E t \in Threads : UiStep(t)
    \/ FlipHorizontalButton \/ FlipVerticalButton
    \/ LutMenu

SpecUi == Init /\ [][NextUi]_vars

(***************************************************************************)
(* The program of boson_lut.py in the runs in which no append to the       *)
(* writer fails: the write-failure handler is never entered, so            *)
(* toggle_recording runs on the main thread only.  A thread's own steps    *)
(* are taken sooner or later; a lock that keeps becoming free is           *)
(* eventually given to a thread that waits for it (the capture loop sleeps *)
(* with no lock held at the end of every iteration).  Button presses are   *)
(* the user's and under no obligation.                                     *)
(***************************************************************************)
WriteOk(t) == Write(t) /\ pc'[t] = "display"

\* The loop test, with the frames of these runs bounded by MaxLockFrames.
LoopTopLocks(t) == LoopTop(t) /\ (pc'[t] = "cap_acq" => nframes < MaxLockFrames)

CaptureStepOk(t) ==
    \/ LoopTopLocks(t) \/ CapAcquire(t) \/ CapRead(t) \/ Transform(t)
    \/ RecAcquire(t) \/ RecCheck(t) \/ OutAcquire(t) \/ WriteOk(t)
    \/ Display(t) \/ ShotTest(t)

MainHandlerStep ==
    \/ TrAcquire(MainThread) \/ TrBody(MainThread)
    \/ TrOutAcquire(MainThread) \/ TrOutBody(MainThread)
    \/ SwAcquire \/ SwRelease \/ SwOpen \/ update_video_frame
    \/ ExitCapAcquire \/ ExitCapRelease \/ ExitOutAcquire \/ ExitOutRelease
    \/ ExitSet \/ MainReturn

MainPress == RecordButton \/ CameraMenu \/ ExitButton

NextLocks ==
    \/ \E t \in Threads : CaptureStepOk(t)
    \/ MainHandlerStep
    \/ MainPress

SpecLocks ==
    /\ Init
    /\ [][NextLocks]_vars
    /\ \A t \in Threads : SF_vars(CaptureStepOk(t))
    /\ SF_vars(MainHandlerStep)

(***************************************************************************)
(* boson_lut-multicam.py.  Its main window runs on the Tk main thread      *)
(* alone: update_frame reschedules itself in the event loop, and the       *)
(* buttons and the camera menu are callbacks of that loop.  Open All       *)
(* Cameras starts one thread per camera running create_camera_window and   *)
(* joins them.  The variables cap, caps, current_camera_index,             *)
(* selected_camera, lut_var, frame, colored_frame, video_label, writers    *)
(* and root mean here what they mean in boson_lut.py.                      *)
(***************************************************************************)
OpenRetries == 3

Windows == 1..Len(available_cameras)

\* The handles opened for the main display, in the order of their construction.
MainCaps == SelectSeq(caps, LAMBDA c : c.owner = MainThread)

\* The variables only boson_lut.py has.
bosonVars == <<cap_lock, out_lock, recording_lock, exit_event, screenshot_requested,
               recording_var, out_var, flip_horizontal_var, flip_vertical_var, last_frame,
               screenshots, xform_active, rec_active>>

\* main of boson_lut-multicam.py up to root.mainloop(): the first camera is
\* open, and the first update_frame() is about to run.
McInit ==
    /\ NoCall
    /\ pc = [k \in Tasks |-> IF k = MainThread THEN "mainloop" ELSE "idle"]
    /\ cap_lock = {} /\ out_lock = {} /\ recording_lock = {}
    /\ exit_event = FALSE
    /\ screenshot_requested = FALSE
    /\ recording_var = FALSE
    /\ out_var = NoWriter
    /\ flip_horizontal_var = FALSE
    /\ flip_vertical_var = FALSE
    /\ last_frame = [t \in Threads |-> NoFrame]
    /\ screenshots = <<>>
    /\ shot_requests = 0
    /\ xform_active = [t \in Threads |-> FALSE]
    /\ rec_active = [t \in Threads |-> FALSE]
    /\ writers = <<>>
    /\ start_failed = FALSE
    /\ caps = << [device |-> available_cameras[1], opened |-> TRUE, released |-> FALSE,
                  owner |-> MainThread] >>
    /\ cap = 1
    /\ current_camera_index = available_cameras[1]
    /\ selected_camera = available_cameras[1]
    /\ cap_of = [t \in Threads |-> 1]
    /\ lut_var = K_WHITEHOT
    /\ root = TRUE
    /\ toggles = NoToggles
    /\ frame = [k \in Tasks |-> NoFrame]
    /\ colored_frame = [k \in Tasks |-> NoFrame]
    /\ video_label = 0
    /\ nframes = 0
    /\ camera_lock = {}
    /\ recording = FALSE
    /\ out = NoWriter
    /\ flip_horizontal = FALSE
    /\ flip_vertical = FALSE
    /\ retries = [k \in Tasks |-> 0]
    /\ opens = [k \in Tasks |-> <<>>]
    /\ after_queue = [k \in Tasks |-> IF k = MainThread THEN 1 ELSE 0]
    /\ cw_args = [t \in Threads |-> <<>>]

\* The flips of update_frame, horizontal first, then the LUT.
flip_and_apply_multicam(img, flip_h, flip_v, current_lut) ==
    apply_lut_multicam(IF flip_v
                       THEN cv2_flip(IF flip_h THEN cv2_flip(img, 1) ELSE img, 0)
                       ELSE IF flip_h THEN cv2_flip(img, 1) ELSE img,
                       current_lut)

\* An open loop that tries again until the device opens.
OpenLoopUnbounded(k, device, after) ==
    /\ retries[k] > 0
    /\ \E ok \in BOOLEAN :
          /\ caps' = Append(caps, [device |-> device, opened |-> ok, released |-> FALSE,
                                   owner |-> k])
          /\ opens' = [opens EXCEPT ![k] = Append(@, [device |-> device, ok |-> ok])]
          /\ UNCHANGED retries
          /\ pc' = [pc EXCEPT ![k] = IF ok THEN after ELSE @]

\* One pass of an open loop of task k for the device asked for:
\*   while retries > 0: cap = cv2.VideoCapture(...); if cap.isOpened(): break
\*                      else: retries -= 1; time.sleep(1)
\* The task is at label after when the loop has ended.
OpenLoop(k, device, after) ==
    /\ retries[k] > 0
    /\ \E ok \in BOOLEAN :
          /\ caps' = Append(caps, [device |-> device, opened |-> ok, released |-> FALSE,
                                   owner |-> k])
          /\ opens' = [opens EXCEPT ![k] = Append(@, [device |-> device, ok |-> ok])]
          /\ retries' = [retries EXCEPT ![k] = IF ok THEN @ ELSE @ - 1]
          /\ pc' = [pc EXCEPT ![k] = IF ok \/ retries[k] = 1 THEN after ELSE @]

\* update_frame of the main window is run by the event loop: with camera_lock:
UpdateFrameAcquire ==
    /\ pc[MainThread] = "mainloop"
    /\ after_queue[MainThread] > 0
    /\ nframes < MaxFrames
    /\ camera_lock = {}
    /\ camera_lock' = {MainThread}
    /\ Goto(MainThread, "mc_read")
    /\ UNCHANGED <<callVars, bosonVars, recVars, camVars, uiVars, frame, colored_frame, outVars,
                   nframes, recording, out, flip_horizontal, flip_vertical, retries, opens,
                   after_queue, cw_args>>

\* ret, frame = cap.read(); a failed read is retried after 100 ms; else the
\* flips, the LUT, the append while recording, the display, and the next
\* update by after_idle.  An exception ends the callback before that.
update_frame ==
    /\ pc[MainThread] = "mc_read"
    /\ camera_lock' = {}
    /\ Goto(MainThread, "mainloop")
    /\ \/ /\ Readable(cap)
          /\ nframes' = nframes + 1
          /\ \E img \in CameraImages :
             \E r \in {flip_and_apply_multicam(img, flip_horizontal, flip_vertical, lut_var)} :
                /\ frame' = [frame EXCEPT ![MainThread] =
                                [id |-> nframes + 1, cap |-> cap, img |-> img]]
                /\ IF r.err # "none"
                   THEN /\ after_queue' = [after_queue EXCEPT ![MainThread] = @ - 1]
                        /\ UNCHANGED <<colored_frame, writers, video_label>>
                   ELSE /\ colored_frame' = [colored_frame EXCEPT ![MainThread] =
                                [id |-> nframes + 1, cap |-> cap, img |-> r.frame,
                                 lut |-> lut_var, toggles |-> toggles]]
                        /\ \/ /\ writers' = IF recording /\ out # NoWriter
                                            THEN [writers EXCEPT ![out] =
                                                    VideoWriter_write(@, [id |-> nframes + 1, cap |-> cap])]
                                            ELSE writers
                              /\ video_label' = nframes + 1
                              /\ UNCHANGED after_queue
                           \/ /\ recording /\ out # NoWriter
                              /\ after_queue' = [after_queue EXCEPT ![MainThread] = @ - 1]
                              /\ UNCHANGED <<writers, video_label>>
       \/ UNCHANGED <<frame, colored_frame, writers, video_label, nframes, after_queue>>
    /\ UNCHANGED <<callVars, bosonVars, recording_var, out_var, start_failed, camVars, uiVars, screenshots,
                   shot_requests,
                   recording, out, flip_horizontal, flip_vertical, retries, opens, cw_args>>

\* Start/Stop Recording: the writer is constructed outside any try, so an
\* exception of the constructor leaves recording and out as they were.
toggle_recording ==
    /\ pc[MainThread] = "mainloop"
    /\ IF ~recording
       THEN /\ Len(writers) < MaxWriters
            /\ \/ /\ writers' = Append(writers, NewWriter)
                  /\ out' = Len(writers) + 1
                  /\ recording' = TRUE
                  /\ start_failed' = FALSE
               \/ /\ start_failed' = TRUE
                  /\ UNCHANGED <<writers, out, recording>>
       ELSE /\ recording' = FALSE
            /\ writers' = IF out # NoWriter
                          THEN [writers EXCEPT ![out] = VideoWriter_release(@)]
                          ELSE writers
            /\ out' = NoWriter
            /\ UNCHANGED start_failed
    /\ UNCHANGED <<callVars, bosonVars, pc, recording_var, out_var, camVars, uiVars, frame,
                   colored_frame, outVars, nframes, camera_lock, flip_horizontal,
                   flip_vertical, retries, opens, after_queue, cw_args>>

\* A flip button that toggles both axes.
toggle_flip_both(axis) ==
    /\ pc[MainThread] = "mainloop"
    /\ toggles.horizontal + toggles.vertical < MaxToggles
    /\ flip_horizontal' = ~flip_horizontal
    /\ flip_vertical' = ~flip_vertical
    /\ toggles' = IF axis = "horizontal" THEN [toggles EXCEPT !.horizontal = @ + 1]
                                         ELSE [toggles EXCEPT !.vertical = @ + 1]
    /\ UNCHANGED <<callVars, bosonVars, pc, recVars, camVars, lut_var, root, frame,
                   colored_frame, outVars, nframes, camera_lock, recording, out, retries,
                   opens, after_queue, cw_args>>

\* Flip Horizontal / Flip Vertical: toggle_flip(axis)
toggle_flip(axis) ==
    /\ pc[MainThread] = "mainloop"
    /\ toggles.horizontal + toggles.vertical < MaxToggles
    /\ IF axis = "horizontal"
       THEN /\ flip_horizontal' = ~flip_horizontal
            /\ toggles' = [toggles EXCEPT !.horizontal = @ + 1]
            /\ UNCHANGED flip_vertical
       ELSE /\ flip_vertical' = ~flip_vertical
            /\ toggles' = [toggles EXCEPT !.vertical = @ + 1]
            /\ UNCHANGED flip_horizontal
    /\ UNCHANGED <<callVars, bosonVars, pc, recVars, camVars, lut_var, root, frame,
                   colored_frame, outVars, nframes, camera_lock, recording, out, retries,
                   opens, after_queue, cw_args>>

\* switch_camera entered without taking camera_lock.
SwitchAcquireUnlocked ==
    /\ pc[MainThread] = "mainloop"
    /\ Len(MainCaps) <= MaxSwitches
    /\ \E i \in 1..Len(available_cameras) :
          /\ available_cameras[i] # current_camera_index
          /\ selected_camera' = available_cameras[i]
    /\ Goto(MainThread, "mc_sw_release")
    /\ UNCHANGED <<callVars, bosonVars, recVars, caps, cap, current_camera_index, cap_of,
                   uiVars, frame, colored_frame, outVars, nframes, camera_lock, recording, out,
                   flip_horizontal, flip_vertical, retries, opens, after_queue, cw_args>>

\* The camera menu writes camera_var, whose trace calls switch_camera:
\* selected_camera != current_camera_index; with camera_lock:
SwitchAcquire ==
    /\ pc[MainThread] = "mainloop"
    /\ Len(MainCaps) <= MaxSwitches
    /\ \E i \in 1..Len(available_cameras) :
          /\ available_cameras[i] # current_camera_index
          /\ selected_camera' = available_cameras[i]
    /\ camera_lock = {}
    /\ camera_lock' = {MainThread}
    /\ Goto(MainThread, "mc_sw_release")
    /\ UNCHANGED <<callVars, bosonVars, recVars, caps, cap, current_camera_index, cap_of,
                   uiVars, frame, colored_frame, outVars, nframes, recording, out,
                   flip_horizontal, flip_vertical, retries, opens, after_queue, cw_args>>

\* cap.release(), and the with block ends; current_camera_index =
\* selected_camera; retries = 3
SwitchRelease ==
    /\ pc[MainThread] = "mc_sw_release"
    /\ caps' = [caps EXCEPT ![cap] = VideoCapture_release(@)]
    /\ camera_lock' = {}
    /\ current_camera_index' = selected_camera
    /\ retries' = [retries EXCEPT ![MainThread] = OpenRetries]
    /\ opens' = [opens EXCEPT ![MainThread] = <<>>]
    /\ Goto(MainThread, "mc_sw_try")
    /\ UNCHANGED <<callVars, bosonVars, recVars, cap, selected_camera, cap_of, uiVars, frame,
                   colored_frame, outVars, nframes, recording, out, flip_horizontal,
                   flip_vertical, after_queue, cw_args>>

\* The open loop of switch_camera; after it the function returns, having
\* set the frame size when the handle is open.
SwitchTry ==
    /\ pc[MainThread] = "mc_sw_try"
    /\ OpenLoop(MainThread, current_camera_index, "mainloop")
    /\ cap' = Len(caps) + 1
    /\ UNCHANGED <<callVars, bosonVars, recVars, current_camera_index, selected_camera, cap_of,
                   uiVars, frame, colored_frame, outVars, nframes, camera_lock, recording, out,
                   flip_horizontal, flip_vertical, after_queue, cw_args>>

\* Exit Program: exit_program: with camera_lock:
ExitAcquire ==
    /\ pc[MainThread] = "mainloop"
    /\ camera_lock = {}
    /\ camera_lock' = {MainThread}
    /\ Goto(MainThread, "mc_ex_release")
    /\ UNCHANGED <<callVars, bosonVars, recVars, camVars, uiVars, frame, colored_frame, outVars,
                   nframes, recording, out, flip_horizontal, flip_vertical, retries, opens,
                   after_queue, cw_args>>

\* cap.release(); root.destroy(): the windows and their callbacks are gone,
\* mainloop returns and main with it.
exit_program ==
    /\ pc[MainThread] = "mc_ex_release"
    /\ caps' = [caps EXCEPT ![cap] = VideoCapture_release(@)]
    /\ camera_lock' = {}
    /\ root' = FALSE
    /\ after_queue' = [k \in Tasks |-> 0]
    /\ pc' = [k \in Tasks |-> IF k = MainThread THEN "exited"
                              ELSE IF pc[k] = "mc_window" THEN "mc_closed" ELSE pc[k]]
    /\ UNCHANGED <<callVars, bosonVars, recVars, cap, current_camera_index, selected_camera,
                   cap_of, lut_var, toggles, frame, colored_frame, outVars, nframes, recording,
                   out, flip_horizontal, flip_vertical, retries, opens, cw_args>>

\* Open All Cameras: a thread per camera runs create_camera_window(camera,
\* lut_var.get(), camera_type), and the callback joins them all.
open_all_cameras ==
    /\ pc[MainThread] = "mainloop"
    /\ \A t \in Windows : pc[t] = "idle"
    /\ pc' = [k \in Tasks |-> IF k = MainThread THEN "mc_join"
                              ELSE IF k \in Windows THEN "mc_cw_try" ELSE pc[k]]
    /\ cw_args' = [t \in Threads |->
                     IF t \in Windows
                     THEN [camera_index |-> available_cameras[t], lut_name |-> lut_var]
                     ELSE cw_args[t]]
    /\ retries' = [k \in Tasks |-> IF k \in Windows THEN OpenRetries ELSE retries[k]]
    /\ opens' = [k \in Tasks |-> IF k \in Windows THEN <<>> ELSE opens[k]]
    /\ UNCHANGED <<callVars, bosonVars, recVars, camVars, uiVars, frame, colored_frame, outVars,
                   nframes, camera_lock, recording, out, flip_horizontal, flip_vertical,
                   after_queue>>

\* thread.join() of every thread returns.
JoinAll ==
    /\ pc[MainThread] = "mc_join"
    /\ \A t \in Windows : pc[t] \in {"mc_window", "done"}
    /\ Goto(MainThread, "mainloop")
    /\ UNCHANGED <<callVars, bosonVars, recVars, camVars, uiVars, frame, colored_frame, outVars,
                   nframes, camera_lock, recording, out, flip_horizontal, flip_vertical,
                   retries, opens, after_queue, cw_args>>

\* create_camera_window in thread t: the open loop.
CwTry(t) ==
    /\ pc[t] = "mc_cw_try"
    /\ OpenLoop(t, cw_args[t].camera_index, "mc_cw_check")
    /\ cap_of' = [cap_of EXCEPT ![t] = Len(caps) + 1]
    /\ UNCHANGED <<callVars, bosonVars, recVars, cap, current_camera_index, selected_camera,
                   uiVars, frame, colored_frame, outVars, nframes, camera_lock, recording, out,
                   flip_horizontal, flip_vertical, after_queue, cw_args>>

\* if not cap or not cap.isOpened(): return; else the frame size and the
\* window; then update_frame() is called: with camera_lock:
CwCheck(t) ==
    /\ pc[t] = "mc_cw_check"
    /\ IF caps[cap_of[t]].opened
       THEN /\ camera_lock = {}
            /\ camera_lock' = {t}
            /\ Goto(t, "mc_cw_read")
       ELSE /\ Goto(t, "done")
            /\ UNCHANGED camera_lock
    /\ UNCHANGED <<callVars, bosonVars, recVars, camVars, uiVars, frame, colored_frame, outVars,
                   nframes, recording, out, flip_horizontal, flip_vertical, retries, opens,
                   after_queue, cw_args>>

\* The first update_frame of window t, in its thread: the read, the LUT and
\* the display, and the next update by after_idle (after 100 ms when the
\* read failed); back in create_camera_window, on_close is registered and
\* update_frame is scheduled by after_idle once more.  An exception of
\* apply_lut ends the thread before that.
CwUpdate(t) ==
    /\ pc[t] = "mc_cw_read"
    /\ camera_lock' = {}
    /\ \/ /\ Readable(cap_of[t])
          /\ nframes < MaxFrames
          /\ nframes' = nframes + 1
          /\ \E img \in CameraImages :
             \E r \in {apply_lut_multicam(img, cw_args[t].lut_name)} :
                /\ frame' = [frame EXCEPT ![t] =
                                [id |-> nframes + 1, cap |-> cap_of[t], img |-> img]]
                /\ IF r.err # "none"
                   THEN /\ Goto(t, "mc_window")
                        /\ UNCHANGED <<colored_frame, after_queue>>
                   ELSE /\ colored_frame' = [colored_frame EXCEPT ![t] =
                                [id |-> nframes + 1, cap |-> cap_of[t], img |-> r.frame,
                                 lut |-> cw_args[t].lut_name, toggles |-> NoToggles]]
                        /\ after_queue' = [after_queue EXCEPT ![t] = @ + 2]
                        /\ Goto(t, "mc_window")
       \/ /\ after_queue' = [after_queue EXCEPT ![t] = @ + 2]
          /\ Goto(t, "mc_window")
          /\ UNCHANGED <<frame, colored_frame, nframes>>
    /\ UNCHANGED <<callVars, bosonVars, recVars, camVars, uiVars, outVars, recording, out,
                   flip_horizontal, flip_vertical, retries, opens, cw_args>>

\* The event loop runs an update_frame of window t: with camera_lock:
WindowUpdateAcquire(t) ==
    /\ pc[MainThread] = "mainloop"
    /\ pc[t] = "mc_window"
    /\ after_queue[t] > 0
    /\ nframes < MaxFrames
    /\ camera_lock = {}
    /\ camera_lock' = {MainThread}
    /\ pc' = [pc EXCEPT ![MainThread] = "mc_callback", ![t] = "mc_w_read"]
    /\ UNCHANGED <<callVars, bosonVars, recVars, camVars, uiVars, frame, colored_frame, outVars,
                   nframes, recording, out, flip_horizontal, flip_vertical, retries, opens,
                   after_queue, cw_args>>

\* update_frame of window t: each run schedules the next one.
WindowUpdate(t) ==
    /\ pc[t] = "mc_w_read"
    /\ camera_lock' = {}
    /\ pc' = [pc EXCEPT ![MainThread] = "mainloop", ![t] = "mc_window"]
    /\ \/ /\ Readable(cap_of[t])
          /\ nframes' = nframes + 1
          /\ \E img \in CameraImages :
             \E r \in {apply_lut_multicam(img, cw_args[t].lut_name)} :
                /\ frame' = [frame EXCEPT ![t] =
                                [id |-> nframes + 1, cap |-> cap_of[t], img |-> img]]
                /\ IF r.err # "none"
                   THEN /\ after_queue' = [after_queue EXCEPT ![t] = @ - 1]
                        /\ UNCHANGED colored_frame
                   ELSE /\ colored_frame' = [colored_frame EXCEPT ![t] =
                                [id |-> nframes + 1, cap |-> cap_of[t], img |-> r.frame,
                                 lut |-> cw_args[t].lut_name, toggles |-> NoToggles]]
                        /\ UNCHANGED after_queue
       \/ UNCHANGED <<frame, colored_frame, nframes, after_queue>>
    /\ UNCHANGED <<callVars, bosonVars, recVars, camVars, uiVars, outVars, recording, out,
                   flip_horizontal, flip_vertical, retries, opens, cw_args>>

\* Window t is closed by the user: on_close: with camera_lock:
OnCloseAcquire(t) ==
    /\ pc[MainThread] = "mainloop"
    /\ pc[t] = "mc_window"
    /\ camera_lock = {}
    /\ camera_lock' = {MainThread}
    /\ pc' = [pc EXCEPT ![MainThread] = "mc_callback", ![t] = "mc_closing"]
    /\ UNCHANGED <<callVars, bosonVars, recVars, camVars, uiVars, frame, colored_frame, outVars,
                   nframes, recording, out, flip_horizontal, flip_vertical, retries, opens,
                   after_queue, cw_args>>

\* cap.release(); camera_window.destroy()
on_close(t) ==
    /\ pc[t] = "mc_closing"
    /\ caps' = [caps EXCEPT ![cap_of[t]] = VideoCapture_release(@)]
    /\ camera_lock' = {}
    /\ after_queue' = [after_queue EXCEPT ![t] = 0]
    /\ pc' = [pc EXCEPT ![MainThread] = "mainloop", ![t] = "mc_closed"]
    /\ UNCHANGED <<callVars, bosonVars, recVars, cap, current_camera_index, selected_camera,
                   cap_of, uiVars, frame, colored_frame, outVars, nframes, recording, out,
                   flip_horizontal, flip_vertical, retries, opens, cw_args>>

\* The main window: the display, recording, the flips, a camera switch, exit.
MainWindowStep ==
    \/ UpdateFrameAcquire \/ update_frame \/ toggle_recording
    \/ (\E axis \in {"horizontal", "vertical"} : toggle_flip(axis))
    \/ SwitchAcquire \/ SwitchRelease \/ SwitchTry

ExitStepMulticam == ExitAcquire \/ exit_program

NextMulticam == MainWindowStep \/ ExitStepMulticam

SpecMulticam == McInit /\ [][NextMulticam]_vars

\* The camera windows: Open All Cameras, the windows' updates, their closing,
\* a camera switch of the main window, and exit.
CameraWindowStep(t) ==
    \/ CwTry(t) \/ CwCheck(t) \/ CwUpdate(t)
    \/ WindowUpdateAcquire(t) \/ WindowUpdate(t) \/ OnCloseAcquire(t) \/ on_close(t)

NextWindows ==
    \/ open_all_cameras \/ JoinAll
    \/ (\E t \in Windows : CameraWindowStep(t))
    \/ LutMenu
    \/ SwitchAcquire \/ SwitchRelease \/ SwitchTry
    \/ ExitStepMulticam

SpecWindows == McInit /\ [][NextWindows]_vars

(***************************************************************************)
(* Properties of create_custom_lut and apply_lut, checked under SpecLut.   *)
(***************************************************************************)
SupportedColors == {S_red, S_green, S_blue}

Returned == call_ret.err # "pending"

CreateReturned == call_fn = "create_custom_lut" /\ Returned

\* C1: for every supported colour and every step 1..256, create_custom_lut
\* returns a table of exactly 256 rows, each of 3 channels with values in
\* 0..255.
C1_TableShape ==
    (CreateReturned /\ call_color \in SupportedColors /\ call_step \in 1..256)
        => /\ call_ret.err = "none"
           /\ Len(call_ret.table) = 256
           /\ \A i \in 1..256 :
                 /\ Len(call_ret.table[i]) = 3
                 /\ \A c \in 1..3 : call_ret.table[i][c] \in 0..255

C1_Witness ==
    /\ CreateReturned /\ call_color = S_green /\ call_step = 256
    /\ call_ret.err = "none" /\ Len(call_ret.table) = 256

\* C2: create_custom_lut fails with ValueError and returns no table whenever
\* the step is <= 0, whatever the colour, or the step is positive and the
\* colour is not red, green or blue.
C2_Rejects ==
    (CreateReturned /\ (call_step <= 0 \/ call_color \notin SupportedColors))
        => call_ret.err = "ValueError" /\ call_ret.table = <<>>

C2_Witness ==
    /\ CreateReturned /\ call_color = S_red /\ call_step = 0
    /\ call_ret.err = "ValueError"

\* The colour channel of a colour (BGR order) and the row of a colour ramp
\* whose colour channel has the value v.
ColorChannel(color) == IF color = S_red THEN 3 ELSE IF color = S_green THEN 2 ELSE 1

ColorRow(color, v) == [c \in 1..3 |-> IF c = ColorChannel(color) THEN v ELSE 0]

IsothermRedRow(v) ==
    IF v < 224 THEN Grey((v * 255) \div 223)
    ELSE <<0, 0, 64 + ((v - 224) * 191) \div 31>>

IsGrey(p) == p[1] = p[2] /\ p[2] = p[3]

ApplyReturned == call_fn \in {"apply_lut", "apply_lut_multicam"} /\ Returned

\* C4: applying the table of create_custom_lut('red', 32) maps every pixel
\* of intensity v to table row v; a frame of 0s gives row 0 = (0,0,0) at
\* every pixel, a frame of 255s gives row 255 = (0,0,255) at every pixel.
C4_Lookup ==
    (ApplyReturned /\ call_name = K_ISOTHERM_RED)
        => /\ call_ret.err = "none"
           /\ Len(call_ret.frame) = Len(call_frame)
           /\ \A y \in 1..Len(call_frame) :
                 /\ Len(call_ret.frame[y]) = Len(call_frame[y])
                 /\ \A x \in 1..Len(call_frame[y]) :
                       /\ IsGrey(call_frame[y][x])
                             => call_ret.frame[y][x] = IsothermRedRow(call_frame[y][x][1])
                       /\ call_frame[y][x] = Grey(0) => call_ret.frame[y][x] = <<0, 0, 0>>
                       /\ call_frame[y][x] = Grey(255) => call_ret.frame[y][x] = <<0, 0, 255>>

C4_Witness ==
    /\ call_fn = "apply_lut" /\ Returned /\ call_name = K_ISOTHERM_RED
    /\ call_frame = << <<Grey(255), Grey(0)>> >>
    /\ call_ret.frame = << << <<0, 0, 255>>, <<0, 0, 0>> >> >>

\* C5 as amended: apply_lut of boson_lut.py fails with ValueError, producing
\* no frame, exactly for the names that are not themselves keys of LUTS (no
\* case normalisation); apply_lut of boson_lut-multicam.py fails exactly for
\* the names whose upper-cased form is not a key.
C5_UnsupportedLut ==
    /\ (call_fn = "apply_lut" /\ Returned)
          => /\ (call_ret.err = "ValueError") <=> (call_name \notin DOMAIN LUTS)
             /\ call_ret.err = "ValueError" => call_ret.frame = <<>>
    /\ (call_fn = "apply_lut_multicam" /\ Returned)
          => /\ (call_ret.err = "ValueError") <=> (upper(call_name) \notin DOMAIN LUTS)
             /\ call_ret.err = "ValueError" => call_ret.frame = <<>>

\* apply_lut of boson_lut.py rejects the lower-case name of a registered LUT.
C5_Witness ==
    /\ call_fn = "apply_lut" /\ Returned /\ call_name = S_whitehot
    /\ call_ret.err = "ValueError" /\ call_ret.frame = <<>>

\* C5 as stated: both variants fail exactly for the names whose
\* case-normalized form is not a key.
C5_CaseNormalized ==
    ApplyReturned
        => (call_ret.err = "ValueError") <=> (upper(call_name) \notin DOMAIN LUTS)

(***************************************************************************)
(* Device discovery, checked under SpecLut.                                *)
(***************************************************************************)
DiscoveryReturned == call_fn = "get_video_devices_for_flir" /\ call_ret # Pending

\* The devices the claim names: those with a USB parent whose vendor id is
\* 09cb, or whose vendor id is 1e4e and product id is 0100.
IsThermal(p) ==
    /\ ~p.is_none
    /\ \/ p.ID_VENDOR_ID = "09cb"
       \/ p.ID_VENDOR_ID = "1e4e" /\ p.ID_MODEL_ID = "0100"

ThermalIndexes == {i \in 1..Len(call_devices) : IsThermal(call_devices[i])}

\* C16: discovery returns, without an error, exactly the nodes of the
\* enumerated devices that are thermal cameras, in enumeration order: the
\* j-th path returned is the node of the j-th such device.  One device of
\* vendor 09cb gives one path, one of vendor 1234 the empty sequence, and
\* so does an enumeration without a thermal camera.
C16_Discovery ==
    DiscoveryReturned =>
        /\ call_ret.err = "none"
        /\ Len(call_ret.devices) = Cardinality(ThermalIndexes)
        /\ \A i \in ThermalIndexes :
              call_ret.devices[Cardinality({m \in ThermalIndexes : m <= i})] = DeviceNodes[i]
        /\ call_devices = <<UsbParent("09cb", "4007")>> => call_ret.devices = <<"/dev/video0">>
        /\ call_devices = <<UsbParent("1234", "0100")>> => call_ret.devices = <<>>
        /\ ThermalIndexes = {} => call_ret.devices = <<>>

\* Three devices, the first a Lepton adapter, the second of another vendor,
\* the third a Boson: two paths, in enumeration order.
C16_Witness ==
    /\ DiscoveryReturned
    /\ call_devices = <<UsbParent("1e4e", "0100"), UsbParent("1234", "0100"), UsbParent("09cb", "4007")>>
    /\ call_ret.devices = <<"/dev/video0", "/dev/video2">>

(***************************************************************************)
(* Properties of the running program, checked under Spec.                  *)
(***************************************************************************)
\* What writer w was handed, in the order of the appends: the frames it
\* kept, then those written after its release.
Appended(w) == writers[w].frames \o writers[w].late

\* The frame of thread t's iteration, as the writer records it.
FrameKey(t) == [id |-> colored_frame[t].id, cap |-> colored_frame[t].cap]

IsAppended(e) ==
    \E w \in 1..Len(writers) : \E i \in 1..Len(Appended(w)) : Appended(w)[i] = e

IsKept(e) ==
    \E w \in 1..Len(writers) : \E i \in 1..Len(writers[w].frames) : writers[w].frames[i] = e

\* Thread t has a transformed frame and is past the record step of the
\* iteration that made it.
PastRecordStep(t) ==
    /\ colored_frame[t] # NoFrame
    /\ pc[t] \in {"display", "shot", "shot_save", "top", "cap_acq", "read", "done"}

\* C7 as amended: a frame is appended exactly when a session is active at the
\* record step of its iteration (flag true and writer present, tested under
\* the recording lock) and the append does not fail; the session cannot be
\* stopped between that test and the append, which runs under both locks;
\* no frame is appended twice or to two writers, and the frames of one
\* camera handle are appended in capture order.
C7_RecordsActiveFrames ==
    /\ \A t \in Threads :
          /\ pc[t] \in {"out_acq", "write"}
                => recording_var /\ out_var # NoWriter /\ recording_lock = {t}
          /\ pc[t] = "write" => out_lock = {t}
          /\ PastRecordStep(t) => (rec_active[t] <=> IsAppended(FrameKey(t)))
    /\ \A w \in 1..Len(writers) :
          \A i, j \in 1..Len(Appended(w)) :
              i < j => /\ Appended(w)[i] # Appended(w)[j]
                       /\ Appended(w)[i].cap = Appended(w)[j].cap
                             => Appended(w)[i].id < Appended(w)[j].id
    /\ \A v, w \in 1..Len(writers) :
          v # w => \A i \in 1..Len(Appended(v)) : \A j \in 1..Len(Appended(w)) :
                      Appended(v)[i] # Appended(w)[j]

\* A session started and stopped by the record button with two frames in it.
C7_Witness ==
    /\ ~recording_var /\ out_var = NoWriter /\ ~exit_event
    /\ \E w \in 1..Len(writers) :
          /\ writers[w].released
          /\ Len(writers[w].frames) = 2
          /\ writers[w].frames[1].id < writers[w].frames[2].id

\* C7 as stated: every frame transformed while a session is active is in a
\* writer once its iteration is past the record step.
C7_EveryActiveFrameKept ==
    \A t \in Threads :
        (PastRecordStep(t) /\ xform_active[t]) => IsKept(FrameKey(t))

\* C8: a capture thread whose append failed stops the session and goes on
\* to the display step; for that its handler's toggle_recording must get
\* the recording lock, so the thread must not be the one holding it.
C8_HandlerStopsSession ==
    \A t \in Threads : pc[t] = "tr_acq" => t \notin recording_lock

\* C9: a failed camera read does not end the capture loop: unless the exit
\* event is set, no capture thread leaves the loop from its read.
C9_ReadFailureRetries ==
    [][\A t \in Threads : (pc[t] = "read" /\ ~exit_event) => pc'[t] # "done"]_vars

\* C10: once exit_event is set every capture thread terminates: the program
\* cannot come to a halt with the event set and a capture thread still
\* inside its loop.
C10_CaptureTerminates ==
    (exit_event /\ ~ENABLED Next)
        => \A t \in Threads : pc[t] \in {"idle", "done", "killed"}

(***************************************************************************)
(* Exit, camera switches, screenshots, flips.                              *)
(***************************************************************************)
\* boson_lut.py has released its resources when main returns: the current
\* camera handle, every earlier handle, and every writer it constructed.
ReleasedAtExit ==
    pc[MainThread] = "exited"
        => /\ \A c \in 1..Len(caps) : caps[c].released
           /\ \A w \in 1..Len(writers) : writers[w].released

\* C11: when the program has terminated, the current camera handle has been
\* released, and so has the writer of a recording session that was active
\* at exit (boson_lut-multicam.py).
C11_ReleasedAtExit ==
    pc[MainThread] = "exited"
        => /\ caps[cap].released
           /\ (recording /\ out # NoWriter) => writers[out].released

\* The handles of the main display that are open: opened and not released.
OpenHandles ==
    {c \in 1..Len(caps) : caps[c].owner = MainThread /\ caps[c].opened /\ ~caps[c].released}

\* C12: a camera switch releases the old handle, holding the camera lock,
\* before it opens the new one: when switch_camera is about to construct
\* the new handle no handle of the main display is open, and at no time
\* are two of them open.
C12_OldReleasedFirst ==
    /\ Cardinality(OpenHandles) <= 1
    /\ pc[MainThread] = "sw_release" => cap_lock = {MainThread}
    /\ pc[MainThread] = "mc_sw_release" => camera_lock = {MainThread}
    /\ pc[MainThread] \in {"sw_open", "mc_sw_try"} => OpenHandles = {}

\* A switch has released the first handle and opened the second device.
C12_Witness ==
    /\ pc[MainThread] = "mainloop"
    /\ Len(caps) = 2
    /\ caps[1].released
    /\ cap = 2
    /\ caps[2].opened /\ ~caps[2].released
    /\ caps[2].device = available_cameras[2]

\* A capture loop is running.
LoopRuns == \E t \in Threads : pc[t] \notin {"idle", "done", "killed"}

\* C13: a screenshot request made while the capture loop runs is consumed
\* in the end: the flag set by take_screenshot is cleared again (frames are
\* read up to the bound of the model only).
C13_RequestConsumed ==
    (screenshot_requested /\ LoopRuns /\ nframes < MaxFrames)
        ~> (~screenshot_requested \/ nframes = MaxFrames)

\* One request never produces more than one image.
OneImagePerRequest == Len(screenshots) <= shot_requests

\* The screenshot step clears the flag, whether the image was written or not.
ShotClearsFlag ==
    [][\A t \in Threads : (pc[t] = "shot_save" /\ pc'[t] # "shot_save")
                              => ~screenshot_requested']_vars

FailedStartMulticam == start_failed => (~recording /\ out = NoWriter)

\* The frame as read that task k's transformed frame was made from.
SourceOf(k) == frame[k].img

\* update_frame's output for a frame, by the parity of the presses of Flip
\* Horizontal, Flip Vertical never pressed: the LUT of the frame as read
\* after an even number, the LUT of the mirrored frame after an odd number.
FlipOutput ==
    \A k \in DOMAIN colored_frame :
        (/\ colored_frame[k] # NoFrame
         /\ colored_frame[k].id = frame[k].id
         /\ colored_frame[k].toggles.vertical = 0)
            => colored_frame[k].img =
                 IF colored_frame[k].toggles.horizontal % 2 = 0
                 THEN apply_lut_multicam(SourceOf(k), colored_frame[k].lut).frame
                 ELSE apply_lut_multicam(cv2_flip(SourceOf(k), 1), colored_frame[k].lut).frame

\* A press of a flip button changes the flag of its own axis and not the
\* other flag, the recording state or the LUT selection.
ToggleOwnAxis ==
    /\ toggles'.horizontal # toggles.horizontal
          => /\ flip_horizontal' = ~flip_horizontal
             /\ UNCHANGED <<flip_vertical, recording, out, writers, lut_var>>
    /\ toggles'.vertical # toggles.vertical
          => /\ flip_vertical' = ~flip_vertical
             /\ UNCHANGED <<flip_horizontal, recording, out, writers, lut_var>>

\* C15: after an even number of presses of Flip Horizontal, Flip Vertical
\* untouched, the output is what it is without any flip; a press toggles
\* its own axis only and leaves the other axis, the recording state and
\* the LUT selection; the flip is applied to the frame, then the LUT.
C15_FlipTwiceIsIdentity == []FlipOutput /\ [][ToggleOwnAxis]_vars

\* A frame made after two presses of Flip Horizontal equals the unflipped
\* output and differs from the mirrored one.
C15_Witness ==
    /\ colored_frame[MainThread] # NoFrame
    /\ colored_frame[MainThread].toggles = [horizontal |-> 2, vertical |-> 0]
    /\ ~flip_horizontal /\ ~flip_vertical
    /\ colored_frame[MainThread].img = apply_lut_multicam(frame[MainThread].img, lut_var).frame
    /\ colored_frame[MainThread].img
          # apply_lut_multicam(cv2_flip(frame[MainThread].img, 1), lut_var).frame

\* The same for the capture loop of boson_lut.py and its two flip buttons.
FlipOutputBoson ==
    \A t \in Threads :
        (/\ colored_frame[t] # NoFrame
         /\ colored_frame[t].id = frame[t].id
         /\ colored_frame[t].toggles.vertical = 0)
            => colored_frame[t].img =
                 IF colored_frame[t].toggles.horizontal % 2 = 0
                 THEN apply_lut(frame[t].img, colored_frame[t].lut).frame
                 ELSE apply_lut(cv2_flip(frame[t].img, 1), colored_frame[t].lut).frame

ToggleOwnAxisBoson ==
    /\ toggles'.horizontal # toggles.horizontal
          => /\ flip_horizontal_var' = ~flip_horizontal_var
             /\ UNCHANGED <<flip_vertical_var, recVars, lut_var>>
    /\ toggles'.vertical # toggles.vertical
          => /\ flip_vertical_var' = ~flip_vertical_var
             /\ UNCHANGED <<flip_horizontal_var, recVars, lut_var>>

FlipTwiceIsIdentityBoson == []FlipOutputBoson /\ [][ToggleOwnAxisBoson]_vars

\* The statements that read or release a camera handle run with the camera
\* lock held by the task running them: cap.read() of a capture thread, of
\* update_frame and of a camera window, cap.release() of switch_camera,
\* exit_program, main and on_close, and the re-open inside the with block of
\* boson_lut.py's switch_camera.
LockedAccess ==
    /\ \A t \in Threads : pc[t] = "read" => cap_lock = {t}
    /\ pc[MainThread] \in {"sw_release", "sw_open", "ex_cap_rel", "fin_cap_rel"}
          => cap_lock = {MainThread}
    /\ pc[MainThread] \in {"mc_read", "mc_sw_release", "mc_ex_release"}
          => camera_lock = {MainThread}
    /\ \A t \in Threads : /\ pc[t] = "mc_cw_read" => camera_lock = {t}
                          /\ pc[t] \in {"mc_w_read", "mc_closing"} => camera_lock = {MainThread}

\* The tasks that are at a statement using a handle of the main display.
Accessors ==
    {t \in Threads : pc[t] = "read"}
        \cup (IF pc[MainThread] \in {"sw_release", "sw_open", "ex_cap_rel", "fin_cap_rel",
                                     "mc_read", "mc_sw_release", "mc_sw_try", "mc_ex_release"}
              THEN {MainThread} ELSE {})

\* C17 as amended: no two tasks use a handle of the main display at once;
\* every read and release holds the camera lock, and so does the re-open
\* of boson_lut.py; the open loop of boson_lut-multicam.py's switch_camera
\* runs after the lock is released, on the one thread that uses the handle.
C17_OneTaskAtATime ==
    /\ LockedAccess
    /\ Cardinality(Accessors) <= 1
    /\ pc[MainThread] = "mc_sw_try" => camera_lock = {}

\* switch_camera of boson_lut-multicam.py is opening the new handle, the
\* old one released, and nobody holds the camera lock.
C17_Witness ==
    /\ pc[MainThread] = "mc_sw_try"
    /\ camera_lock = {}
    /\ caps[1].released
    /\ Len(opens[MainThread]) = 1

\* C17 as stated: the re-open of switch_camera too holds the camera lock.
C17_AllUnderLock ==
    /\ LockedAccess
    /\ pc[MainThread] = "mc_sw_try" => camera_lock = {MainThread}

\* C18: a task appending a frame to the writer, or releasing the writer in
\* toggle_recording, holds the recording lock and the writer lock and not
\* the camera lock; the camera lock is held only at the camera read (a
\* capture thread, or one the exit of the process ended there) and at the
\* release and the open of a handle (the main thread in switch_camera,
\* exit_program and main's cleanup).
C18_LocksAroundWriter ==
    /\ \A k \in Tasks :
          pc[k] \in {"write", "tr_out_body"}
              => recording_lock = {k} /\ out_lock = {k} /\ k \notin cap_lock
    /\ \A t \in Threads : t \in cap_lock => pc[t] \in {"read", "killed"}
    /\ MainThread \in cap_lock
          => pc[MainThread] \in {"sw_release", "sw_open", "ex_cap_rel", "fin_cap_rel"}

\* A capture thread is appending while the main thread, inside
\* switch_camera, holds the camera lock.
C18_Witness ==
    \E t \in Threads :
        /\ pc[t] = "write"
        /\ recording_lock = {t} /\ out_lock = {t}
        /\ cap_lock = {MainThread}
        /\ pc[MainThread] = "sw_open"

\* The record button's toggle_recording is releasing the writer.
ReleasingInToggle ==
    pc[MainThread] = "tr_out_body" /\ recording_lock = {MainThread} /\ out_lock = {MainThread}

\* The capture threads that have been started and have not ended.
Alive == {t \in Threads : pc[t] \notin {"idle", "done", "killed"}}

\* C19: at most one capture task of the main display is alive at any time,
\* also after camera switches.
C19_OneCaptureTask == Cardinality(Alive) <= 1

\* The open attempts of task k's last open loop all failed.
AllFailed(k) == \A i \in 1..Len(opens[k]) : ~opens[k][i].ok

\* Task k's open loop, for the device asked for, within its bounds: at most
\* OpenRetries attempts, all on that device, none after a success.
BoundedOpens(k, device) ==
    /\ Len(opens[k]) <= 3
    /\ \A i \in 1..Len(opens[k]) :
          /\ opens[k][i].device = device
          /\ i < Len(opens[k]) => ~opens[k][i].ok

\* C20: the open loops of switch_camera and create_camera_window
\* (boson_lut-multicam.py) attempt the open at most 3 times and stop at the
\* first success; they end either with the requested device open or, after
\* 3 failures, with the handle unopened; no other device is ever opened.
C20_BoundedOpen ==
    /\ BoundedOpens(MainThread, current_camera_index)
    /\ pc[MainThread] = "mc_sw_try" => current_camera_index = selected_camera
    /\ (opens[MainThread] # <<>> /\ pc[MainThread] # "mc_sw_try")
          => /\ caps[cap].device = current_camera_index
             /\ IF AllFailed(MainThread)
                THEN Len(opens[MainThread]) = 3 /\ ~caps[cap].opened
                ELSE caps[cap].opened
    /\ \A t \in Windows :
          /\ cw_args[t] # <<>> => BoundedOpens(t, cw_args[t].camera_index)
          /\ pc[t] = "done"
                => Len(opens[t]) = 3 /\ AllFailed(t) /\ ~caps[cap_of[t]].opened
          /\ pc[t] \in {"mc_cw_read", "mc_window", "mc_w_read", "mc_closing", "mc_closed"}
                => /\ ~AllFailed(t)
                   /\ caps[cap_of[t]].opened
                   /\ caps[cap_of[t]].device = cw_args[t].camera_index

\* switch_camera has returned after three failed attempts, the camera
\* unopened, and a camera window has opened at its second attempt.
C20_Witness ==
    /\ pc[MainThread] = "mainloop"
    /\ Len(opens[MainThread]) = 3
    /\ AllFailed(MainThread)
    /\ ~caps[cap].opened
    /\ \E t \in Windows :
          /\ pc[t] = "mc_window"
          /\ Len(opens[t]) = 2
          /\ opens[t][2].ok

\* The flag and the handle agree.
FlagMatchesHandle == recording_var <=> out_var # NoWriter

\* Task k returns from toggle_recording in this step.
ToggleReturns(k) == pc[k] \in {"tr_body", "tr_out_body"} /\ pc'[k] = Return(k)

\* What a return of toggle_recording leaves: after a stop no flag and no
\* handle, after a successful start the flag and an open writer.
ToggleOutcome ==
    \A k \in Tasks :
       ToggleReturns(k) =>
          /\ recording_lock' = {}
          /\ (pc[k] = "tr_out_body" \/ recording_var)
                => ~recording_var' /\ out_var' = NoWriter
          /\ (pc[k] = "tr_body" /\ ~recording_var /\ ~start_failed')
                => /\ recording_var'
                   /\ out_var' # NoWriter
                   /\ ~writers'[out_var'].released

\* C21: whenever recording_lock is free, recording_var[0] is true exactly
\* when out_var[0] holds a writer; a stop returns with the flag false and the
\* handle cleared, a successful start with the flag true and the handle set.
C21_FlagIffHandle ==
    /\ [](recording_lock = {} => FlagMatchesHandle)
    /\ [][ToggleOutcome]_vars

\* A session was stopped and a second one started: the first writer is
\* released, the flag is set and the handle is the second writer, lock free.
C21_Witness ==
    /\ recording_lock = {}
    /\ Len(writers) = 2
    /\ writers[1].released
    /\ recording_var
    /\ out_var = 2
    /\ ~writers[2].released

\* boson_lut-multicam.py has no recording lock: toggle_recording is one Tk
\* callback, and between callbacks recording and out agree.
FlagMatchesHandleMulticam == recording <=> out # NoWriter

\* C22: no frame is appended to a writer after its release, by
\* toggle_recording's stop or by exit_program, in any interleaving of the
\* capture threads with the main thread.
C22_NoWriteAfterRelease == \A w \in 1..Len(writers) : writers[w].late = <<>>

\* exit_program has released the writer (lines 230-232).
ExitReleased == pc[MainThread] \in {"ex_set", "fin_cap_acq", "fin_cap_rel", "fin_out_acq",
                                    "fin_out_rel", "exited"}

\* A write after release happens only on the writer that exit_program
\* released while the session was on: never after a stop of toggle_recording.
LateOnlyAfterExit ==
    \A w \in 1..Len(writers) :
       writers[w].late # <<>> => ExitReleased /\ recording_var /\ out_var = w

\* The program points at which a task asks for each lock.
CapRequests == {"cap_acq", "sw_acq", "ex_cap_acq", "fin_cap_acq"}
RecRequests == {"rec_acq", "tr_acq"}
OutRequests == {"out_acq", "tr_out_acq", "ex_out_acq", "fin_out_acq"}

\* The locks task k holds.
Held(k) ==
    (IF k \in cap_lock THEN {"cap_lock"} ELSE {})
      \cup (IF k \in recording_lock THEN {"recording_lock"} ELSE {})
      \cup (IF k \in out_lock THEN {"out_lock"} ELSE {})

\* No request for a lock the task holds; out_lock is asked for with
\* recording_lock or nothing in hand, recording_lock and cap_lock with
\* nothing in hand.
LockOrder ==
    \A k \in Tasks :
       /\ pc[k] \in CapRequests => Held(k) = {}
       /\ pc[k] \in RecRequests => Held(k) = {}
       /\ pc[k] \in OutRequests => Held(k) \subseteq {"recording_lock"}

\* Task k waits for a lock.
Waiting(k) == pc[k] \in CapRequests \cup RecRequests \cup OutRequests

\* A wait ends only by the grant of the lock waited for, or by the exit of
\* the process, which ends the daemon thread that waits.
WaitEndsByGrant ==
    \A k \in Tasks :
       (Waiting(k) /\ pc'[k] # pc[k]) =>
          \/ pc[k] \in CapRequests /\ cap_lock' = {k}
          \/ pc[k] \in RecRequests /\ recording_lock' = {k}
          \/ pc[k] \in OutRequests /\ out_lock' = {k}
          \/ pc'[k] = "killed"

\* No task waits for ever.
RequestsGranted == \A k \in Tasks : []<>(~Waiting(k))

\* C23: in the runs without a failed append the three locks cannot deadlock:
\* locks are requested in the order above, and every lock request of the
\* capture threads, toggle_recording, switch_camera and exit_program is
\* eventually granted.
C23_NoDeadlock == []LockOrder /\ [][WaitEndsByGrant]_vars /\ RequestsGranted

\* Three tasks at the locks at once: a capture thread appends, holding
\* recording_lock and out_lock, the other capture thread waits for
\* recording_lock and the main thread, in exit_program, for out_lock.
C23_Witness ==
    \E t \in Threads, u \in Threads :
       /\ pc[t] = "write"
       /\ recording_lock = {t}
       /\ out_lock = {t}
       /\ pc[u] = "rec_acq"
       /\ pc[MainThread] = "ex_out_acq"

\* C24: a camera window opened by create_camera_window has at most one
\* update_frame scheduled or running (after_queue counts the callback that
\* runs until it returns).
C24_SingleUpdateChain == \A t \in Windows : after_queue[t] <= 1

\* The main window of boson_lut-multicam.py has one chain: update_frame() is
\* called once before root.mainloop().
SingleChainMainWindow == after_queue[MainThread] <= 1
====
